---- MODULE Spec2Model ----
(***************************************************************************)
(* Block-level state journal of the REVM bridge (package revmbridge).      *)
(*                                                                         *)
(* A journal (stateDBImpl) wraps one go-ethereum StateDB (the ledger),     *)
(* buffers the account / storage writes that the execution core reports    *)
(* through the re_state_* callbacks, serves reads with pending-write       *)
(* override, and applies the buffered writes to the ledger in flushPending.*)
(***************************************************************************)
EXTENDS Integers, Sequences, FiniteSets, TLC

\* ------------------------------------------------------------------------
\* Bounds of the model
\* ------------------------------------------------------------------------
\* write callbacks the execution core issues in one run
MaxWrites == 2
\* keys of one prefetch batch
MaxKeys == 1
\* handles the registry hands out in one run
MaxHandles == 3
\* bytes of an FFIU256 kept by the model (big-endian, as in the code)
U256Len == 2
ByteBase == 256

\* ------------------------------------------------------------------------
\* Value domains
\* ------------------------------------------------------------------------
Addrs == {"a1", "a2"}
Slots == {"s0", "s1"}
\* the all-zero slot key (common.Hash{}); in a BatchKey it means "account only"
ZeroSlot == "s0"
NoSlot == "-"
\* values the execution core reports
Words == {0, 1, 2}
Balances == {0, 1}
Nonces == {0, 1}
\* amounts a transfer moves
Amounts == {1, 2}

\* byte strings
NoBytes == <<>>
\* the placeholder re_state_set_basic installs: []byte{0x60, 0x00}
Placeholder == <<96, 0>>
\* a contract runtime
Runtime == <<54, 21>>
Codes == {NoBytes, Placeholder, Runtime}

\* 256-bit digests
ZeroHash == "zero"
EmptyCodeHash == "keccak()"
RuntimeHash == "keccak(runtime)"
PlaceholderHash == "keccak(6000)"
Hashes == {ZeroHash, EmptyCodeHash, RuntimeHash, PlaceholderHash}

\* crypto.Keccak256Hash restricted to Codes (injective on them)
Keccak(code) ==
  IF code = NoBytes THEN EmptyCodeHash
  ELSE IF code = Placeholder THEN PlaceholderHash
  ELSE RuntimeHash

\* the ledger and the handle of the journal the host constructs for a block
TheDB == "db1"
DBs == {TheDB}
TheHandle == 1

\* big-endian bytes of i, left-padded to w bytes (big.Int.Bytes + copy)
RECURSIVE bigEndian(_, _)
bigEndian(i, w) ==
  IF w = 0 THEN <<>> ELSE Append(bigEndian(i \div ByteBase, w - 1), i % ByteBase)

\* uint256.Int.SetBytes: the number a big-endian byte string denotes
RECURSIVE setBytes(_)
setBytes(u) ==
  IF Len(u) = 0 THEN 0
  ELSE setBytes(SubSeq(u, 1, Len(u) - 1)) * ByteBase + u[Len(u)]

uint256ToFFIU256(i) == bigEndian(i, U256Len)
ffiU256ToUint256Go(u) == setBytes(u)

\* FFIAccountInfo
AccountInfo(bal, nonce, codeHash) ==
  [Balance |-> bal, Nonce |-> nonce, CodeHash |-> codeHash]

\* account infos the execution core reports in this specification
CodeHashes == {ZeroHash, EmptyCodeHash, RuntimeHash}
Infos ==
  {AccountInfo(uint256ToFFIU256(b), n, c) :
     b \in Balances, n \in Nonces, c \in CodeHashes}

ZeroInfo == AccountInfo(uint256ToFFIU256(0), 0, ZeroHash)

\* keys of a prefetch batch and the batches this specification issues
BatchKey(addr, slot) == [Address |-> addr, Slot |-> slot]
BatchKeys == {BatchKey("a2", ZeroSlot), BatchKey("a2", "s1")}
RECURSIVE SeqsUpTo(_, _)
SeqsUpTo(S, n) ==
  IF n = 0 THEN {<<>>}
  ELSE LET shorter == SeqsUpTo(S, n - 1)
       IN shorter \cup {Append(q, x) : q \in {r \in shorter : Len(r) = n - 1}, x \in S}
BlockNumbers == {0, 1}

\* ------------------------------------------------------------------------
\* State
\* ------------------------------------------------------------------------
VARIABLES
  handleMap,   \* registry: handle -> journal (stateDBImpl)
  handleSeq,   \* last handle handed out
  ledger,      \* db -> address -> account of the StateDB
  hist,        \* handle -> what the callers wrote since the last flush
  fl,          \* record of the flush that has just run (valid = FALSE otherwise)
  nWrites,     \* write callbacks issued so far
  snap,        \* the clone (snapshot executor) of the block's executor
  reg,         \* callers of NewStateDB / ReleaseStateDB and what they were handed
  ret,         \* the callback that has just returned and its status
  thr,         \* a re_state_set_storage call running next to other callbacks
  mem          \* the caller's side: its code buffers and which of them the cache
               \* shares, the block hashes its resolver knows, its out parameters,
               \* the block its state processor is working through

\* the variables the single-journal callbacks leave alone
extra == <<snap, reg, ret, thr, mem>>

vars ==
  <<handleMap, handleSeq, ledger, hist, fl, nWrites, snap, reg, ret, thr, mem>>

\* ------------------------------------------------------------------------
\* Ledger adapter: go-ethereum core/state.StateDB point reads and writes
\* ------------------------------------------------------------------------
NoAccount ==
  [exists |-> FALSE, balance |-> 0, nonce |-> 0, code |-> NoBytes,
   storage |-> [s \in Slots |-> 0]]

GetBalance(db, addr) == db[addr].balance
GetNonce(db, addr) == db[addr].nonce
GetCode(db, addr) == db[addr].code
GetCodeSize(db, addr) == Len(db[addr].code)
GetCodeHash(db, addr) ==
  IF db[addr].exists THEN Keccak(db[addr].code) ELSE ZeroHash
GetState(db, addr, slot) == db[addr].storage[slot]
Exist(db, addr) == db[addr].exists

SetBalance(db, addr, bal) ==
  [db EXCEPT ![addr].exists = TRUE, ![addr].balance = bal]
SetNonce(db, addr, nonce) ==
  [db EXCEPT ![addr].exists = TRUE, ![addr].nonce = nonce]
SetCode(db, addr, code) ==
  [db EXCEPT ![addr].exists = TRUE, ![addr].code = code]
SetState(db, addr, slot, val) ==
  [db EXCEPT ![addr].exists = TRUE, ![addr].storage[slot] = val]

\* one ledger write call, as flush issues it
LedgerWrite(op, addr, slot) == [op |-> op, addr |-> addr, slot |-> slot]

\* ------------------------------------------------------------------------
\* Journal (stateDBImpl)
\* ------------------------------------------------------------------------
NoEntry == [ok |-> FALSE, info |-> ZeroInfo]
NoSlotEntry == [ok |-> FALSE, val |-> 0]
NoSlots == [ok |-> FALSE, slots |-> [s \in Slots |-> NoSlotEntry]]
NoCode == [ok |-> FALSE, bytes |-> NoBytes]

EmptyBasicMap == [a \in Addrs |-> NoEntry]
EmptyStorageMap == [a \in Addrs |-> NoSlots]
EmptyCodeCache == [h \in Hashes |-> NoCode]

\* &stateDBImpl{db: db}
NewJournal(db) ==
  [db |-> db,
   pendingBasicNil |-> TRUE, pendingBasic |-> EmptyBasicMap,
   pendingStorageNil |-> TRUE, pendingStorage |-> EmptyStorageMap,
   codeCache |-> EmptyCodeCache,
   blockHashResolverNil |-> TRUE]

LenBasic(st) == Cardinality({a \in Addrs : st.pendingBasic[a].ok})
LenStorage(st) == Cardinality({a \in Addrs : st.pendingStorage[a].ok})

\* ensureJournal lazily allocs the maps.
ensureJournal(st) ==
  [st EXCEPT !.pendingBasicNil = FALSE, !.pendingStorageNil = FALSE]

\* lookup
lookupOk(h) == h \in DOMAIN handleMap

\* ---- stateDBImpl.Basic ------------------------------------------------
BasicPending(st, addr) == ~st.pendingBasicNil /\ st.pendingBasic[addr].ok

\* the FFIAccountInfo Basic returns
Basic(st, db, addr) ==
  IF BasicPending(st, addr) THEN st.pendingBasic[addr].info
  ELSE AccountInfo(uint256ToFFIU256(GetBalance(db, addr)),
                   GetNonce(db, addr), GetCodeHash(db, addr))

\* the code cache after Basic (a cold read warms it)
BasicWarm(st, db, addr) ==
  IF BasicPending(st, addr) THEN st.codeCache
  ELSE LET codeHash == GetCodeHash(db, addr)
           code == GetCode(db, addr)
       IN IF codeHash # ZeroHash /\ ~st.codeCache[codeHash].ok /\ Len(code) > 0
          THEN [st.codeCache EXCEPT ![codeHash] = [ok |-> TRUE, bytes |-> code]]
          ELSE st.codeCache

\* ---- stateDBImpl.Storage ----------------------------------------------
StoragePending(st, addr, slot) ==
  /\ ~st.pendingStorageNil
  /\ st.pendingStorage[addr].ok
  /\ st.pendingStorage[addr].slots[slot].ok

\* Storage, but taking a pending zero word for "no pending value"
StorageZeroIsUnset(st, db, addr, slot) ==
  IF StoragePending(st, addr, slot) /\ st.pendingStorage[addr].slots[slot].val # 0
  THEN st.pendingStorage[addr].slots[slot].val
  ELSE GetState(db, addr, slot)

Storage(st, db, addr, slot) ==
  IF StoragePending(st, addr, slot)
  THEN st.pendingStorage[addr].slots[slot].val
  ELSE GetState(db, addr, slot)

\* ---- stateDBImpl.CodeByHash / BlockHash -------------------------------
\* CodeByHash, but falling through to the ledger for a hash the cache lacks
CodeByHashReadsLedger(st, codeHash) ==
  IF st.codeCache[codeHash].ok THEN st.codeCache[codeHash].bytes
  ELSE IF \E a \in Addrs : GetCodeHash(ledger[st.db], a) = codeHash
       THEN GetCode(ledger[st.db],
                    CHOOSE a \in Addrs : GetCodeHash(ledger[st.db], a) = codeHash)
       ELSE NoBytes

CodeByHash(st, codeHash) ==
  IF st.codeCache[codeHash].ok THEN st.codeCache[codeHash].bytes ELSE NoBytes

\* BlockHash, but answering from what it returned for the number before
BlockHashCached(st, number) ==
  IF st.blockHashResolverNil THEN ZeroHash
  ELSE IF mem.hashSeen[number].ok THEN mem.hashSeen[number].hash
       ELSE mem.resolver[number]

BlockHash(st, number) ==
  IF st.blockHashResolverNil THEN ZeroHash ELSE mem.resolver[number]

\* ---- stateDBImpl.flushPending -----------------------------------------
\* "The account is empty": zero balance, zero nonce, zero code hash
isEmptyAccount(info) ==
  /\ ffiU256ToUint256Go(info.Balance) = 0
  /\ info.Nonce = 0
  /\ info.CodeHash = ZeroHash

\* flushEmpty, but leaving the pending slots of the address in place
flushEmptyKeepsStorage(acc, addr) == acc

\* delete(s.pendingStorage, addr); continue
flushEmpty(acc, addr) == [acc EXCEPT !.pendingStorage[addr] = NoSlots]

\* flushSkip, but never skipping
flushSkipNever(prevBal, prevNonce, bal, nonce) == FALSE

\* "If the value is identical, skip"
flushSkip(prevBal, prevNonce, bal, nonce) == prevBal = bal /\ prevNonce = nonce

\* one iteration of the loop over pendingBasic; acc = [db, pendingStorage, writes]
flushBasicOne(st, acc, addr) ==
  LET info == st.pendingBasic[addr].info
      bal == ffiU256ToUint256Go(info.Balance)
  IN
  IF isEmptyAccount(info)
  THEN flushEmpty(acc, addr)
  ELSE
    LET prevBal == GetBalance(acc.db, addr)
        prevNonce == GetNonce(acc.db, addr)
    IN
    IF flushSkip(prevBal, prevNonce, bal, info.Nonce)
    THEN acc
    ELSE
      LET db1 == SetNonce(SetBalance(acc.db, addr, bal), addr, info.Nonce)
          w1 == acc.writes \cup {LedgerWrite("SetBalance", addr, NoSlot),
                                 LedgerWrite("SetNonce", addr, NoSlot)}
          codeHash == info.CodeHash
          entry == st.codeCache[codeHash]
      IN
      IF /\ codeHash # ZeroHash /\ codeHash # EmptyCodeHash
         /\ GetCodeSize(db1, addr) = 0
         /\ entry.ok /\ Len(entry.bytes) > 0
      THEN [acc EXCEPT !.db = SetCode(db1, addr, entry.bytes),
                       !.writes = w1 \cup {LedgerWrite("SetCode", addr, NoSlot)}]
      ELSE [acc EXCEPT !.db = db1, !.writes = w1]

RECURSIVE flushBasicLoop(_, _, _)
flushBasicLoop(st, acc, todo) ==
  IF todo = {} THEN acc
  ELSE LET addr == CHOOSE a \in todo : TRUE
       IN flushBasicLoop(st, flushBasicOne(st, acc, addr), todo \ {addr})

\* flushStorageOne, but adding the pending word to the word the ledger holds
flushStorageOneAdds(ps, acc, k) ==
  [acc EXCEPT
     !.db = SetState(acc.db, k[1], k[2],
                     GetState(acc.db, k[1], k[2]) + ps[k[1]].slots[k[2]].val),
     !.writes = acc.writes \cup {LedgerWrite("SetState", k[1], k[2])}]

\* s.db.SetState(addr, slot, val) for one pending slot k = <<addr, slot>>
flushStorageOne(ps, acc, k) ==
  [acc EXCEPT
     !.db = SetState(acc.db, k[1], k[2], ps[k[1]].slots[k[2]].val),
     !.writes = acc.writes \cup {LedgerWrite("SetState", k[1], k[2])}]

\* the loop over pendingStorage; todo is a set of <<addr, slot>>
RECURSIVE flushStorageLoop(_, _, _)
flushStorageLoop(ps, acc, todo) ==
  IF todo = {} THEN acc
  ELSE LET k == CHOOSE x \in todo : TRUE
       IN flushStorageLoop(ps, flushStorageOne(ps, acc, k), todo \ {k})

\* flushReset, but leaving the pending storage map in place
flushResetKeepsStorage(st) ==
  [st EXCEPT !.pendingBasicNil = TRUE, !.pendingBasic = EmptyBasicMap]

\* "reset": both maps become nil
flushReset(st) ==
  [st EXCEPT !.pendingBasicNil = TRUE, !.pendingBasic = EmptyBasicMap,
             !.pendingStorageNil = TRUE, !.pendingStorage = EmptyStorageMap]

\* flushPending, but returning without the reset of the journal
flushPendingKeepsJournal(st, db) ==
  IF LenBasic(st) = 0 /\ LenStorage(st) = 0
  THEN [st |-> st, db |-> db, writes |-> {}]
  ELSE
    LET acc0 == [db |-> db, pendingStorage |-> st.pendingStorage, writes |-> {}]
        acc1 == flushBasicLoop(st, acc0, {a \in Addrs : st.pendingBasic[a].ok})
        ps == acc1.pendingStorage
        acc2 == flushStorageLoop(ps, acc1,
                  {k \in Addrs \X Slots : ps[k[1]].ok /\ ps[k[1]].slots[k[2]].ok})
    IN [st |-> st, db |-> acc2.db, writes |-> acc2.writes]

\* result of flushPending: the journal, the ledger and the ledger writes issued
flushPending(st, db) ==
  IF LenBasic(st) = 0 /\ LenStorage(st) = 0
  THEN [st |-> st, db |-> db, writes |-> {}]
  ELSE
    LET acc0 == [db |-> db, pendingStorage |-> st.pendingStorage, writes |-> {}]
        acc1 == flushBasicLoop(st, acc0, {a \in Addrs : st.pendingBasic[a].ok})
        ps == acc1.pendingStorage
        acc2 == flushStorageLoop(ps, acc1,
                  {k \in Addrs \X Slots : ps[k[1]].ok /\ ps[k[1]].slots[k[2]].ok})
    IN [st |-> flushReset(st), db |-> acc2.db, writes |-> acc2.writes]

\* ---- HasPendingOverlay: the journals Range can visit first for db ------
HasPending(st) ==
  \/ (~st.pendingBasicNil /\ LenBasic(st) > 0)
  \/ (~st.pendingStorageNil /\ LenStorage(st) > 0)

HasPendingOverlay(db) ==
  LET wrapping == {h \in DOMAIN handleMap : handleMap[h].db = db}
  IN IF wrapping = {} THEN {FALSE} ELSE {HasPending(handleMap[h]) : h \in wrapping}

\* ------------------------------------------------------------------------
\* What the callers did (observations the properties are stated over)
\* ------------------------------------------------------------------------
NoWrite == [ok |-> FALSE, val |-> 0, derived |-> FALSE]
NoHist ==
  [basic |-> EmptyBasicMap,
   storage |-> [a \in Addrs |-> [s \in Slots |-> NoWrite]],
   flushed |-> FALSE]

NoFlush ==
  [valid |-> FALSE, h |-> 0, st |-> NewJournal(TheDB),
   db |-> [a \in Addrs |-> NoAccount], writes |-> {},
   hist |-> NoHist, again |-> FALSE, prevWrites |-> {}]

\* ------------------------------------------------------------------------
\* Initial state: NewStateDB(sdb) has registered one journal for the ledger
\* the host prepared (absent accounts, a funded account, a deployed contract)
\* ------------------------------------------------------------------------
FundedAccount == [NoAccount EXCEPT !.exists = TRUE, !.balance = 1]
ContractAccount ==
  [NoAccount EXCEPT !.exists = TRUE, !.code = Runtime, !.storage["s1"] = 1]
\* an empty ledger, or one where a1 is funded and a2 is a deployed contract
GenesisLedgers ==
  {[a \in Addrs |-> NoAccount],
   [a \in Addrs |-> IF a = "a1" THEN FundedAccount ELSE ContractAccount]}

\* no clone has been taken: Clone has not been called
\* a copy of the journal, or a private cache, that does not exist yet
NotTaken == <<>>
NoSnap ==
  [status |-> "none", inst |-> FALSE, handle |-> 0,
   basic |-> NotTaken, storage |-> NotTaken, todo |-> {},
   pre |-> NotTaken, before |-> NotTaken, after |-> NotTaken,
   discarded |-> FALSE, misuse |-> "-", reported |-> FALSE]

\* goroutines that call NewStateDB
Callers == {"r1", "r2"}

\* the registry as its callers know it: TheHandle has been handed out
NoReg ==
  [callers |-> [c \in Callers |-> [pc |-> "idle", h |-> 0]],
   issued |-> <<TheHandle>>, returned |-> {TheHandle}, released |-> {}]

\* no callback has returned
NoRet == [op |-> "-", h |-> 0, valid |-> FALSE, status |-> 0]

\* no re_state_set_storage call is running
NoThr ==
  [pc |-> "idle", h |-> 0, addr |-> "a1", slot |-> "s0", value |-> 0,
   nilBasic |-> FALSE, nilStorage |-> FALSE, status |-> "-"]

\* whose backing array a cache entry is: its own, the caller's input
\* buffer, or the buffer last returned to the caller
NoBuf == [ok |-> FALSE, bytes |-> NoBytes]
\* the answer of an earlier get_block_hash, and the out_hash of the last one
NoAnswer == [ok |-> FALSE, hash |-> ZeroHash]
NoHashOut == [ok |-> FALSE, number |-> 0, hash |-> ZeroHash, prev |-> NoAnswer]
\* StateProcessor.Process has not been called
NoProc == [pc |-> "idle"]
NoMem ==
  [input |-> NoBytes, output |-> NoBytes,
   cacheBuf |-> [c \in Hashes |-> "own"],
   stored |-> [c \in Hashes |-> NoBuf],
   read |-> [ok |-> FALSE, hash |-> ZeroHash, null |-> TRUE, bytes |-> NoBytes],
   resolver |-> [n \in BlockNumbers |-> ZeroHash],
   hashSeen |-> [n \in BlockNumbers |-> NoAnswer],
   hashOut |-> NoHashOut,
   prior |-> NoBuf,
   proc |-> NoProc]

ExtraInit ==
  /\ snap = NoSnap
  /\ reg = NoReg
  /\ ret = NoRet
  /\ thr = NoThr
  /\ mem = NoMem

Init ==
  /\ ExtraInit
  /\ handleSeq = TheHandle
  /\ handleMap = [h \in {TheHandle} |-> NewJournal(TheDB)]
  /\ ledger \in [DBs -> GenesisLedgers]
  /\ hist = [h \in {TheHandle} |-> NoHist]
  /\ fl = NoFlush
  /\ nWrites = 0

\* ------------------------------------------------------------------------
\* Inbound callbacks (execution core -> journal)
\* ------------------------------------------------------------------------
\* re_state_basic: get_account
re_state_basic(h, addr) ==
  /\ lookupOk(h)
  /\ LET st == handleMap[h]
     IN handleMap' = [handleMap EXCEPT
                        ![h].codeCache = BasicWarm(st, ledger[st.db], addr)]
  /\ fl' = NoFlush
  /\ UNCHANGED <<handleSeq, ledger, hist, nWrites>>

\* re_state_storage: get_storage
re_state_storage(h, addr, slot) ==
  /\ lookupOk(h)
  /\ fl' = NoFlush
  /\ UNCHANGED <<handleMap, handleSeq, ledger, hist, nWrites>>

\* re_state_block_hash: get_block_hash
re_state_block_hash(h, number) ==
  /\ lookupOk(h)
  /\ fl' = NoFlush
  /\ UNCHANGED <<handleMap, handleSeq, ledger, hist, nWrites>>

\* re_state_code: get_code
re_state_code(h, codeHash) ==
  /\ lookupOk(h)
  /\ fl' = NoFlush
  /\ UNCHANGED <<handleMap, handleSeq, ledger, hist, nWrites>>

\* setBasic, but keeping the code hash a read of the account returns
setBasicKeepsCodeHash(st, db, addr, info) ==
  LET st1 == ensureJournal(st)
      kept == [info EXCEPT !.CodeHash = Basic(st, db, addr).CodeHash]
  IN [st |-> [st1 EXCEPT !.pendingBasic[addr] = [ok |-> TRUE, info |-> kept]],
      db |-> db]

\* setBasic, but storing the placeholder whatever the cache holds
setBasicAlwaysPlaceholder(st, db, addr, info) ==
  LET st1 == ensureJournal(st)
      st2 == [st1 EXCEPT !.pendingBasic[addr] = [ok |-> TRUE, info |-> info]]
      ch == info.CodeHash
  IN [st |-> IF ch # ZeroHash
             THEN [st2 EXCEPT !.codeCache[ch] = [ok |-> TRUE, bytes |-> Placeholder]]
             ELSE st2,
      db |-> db]

\* the journal and the ledger after re_state_set_basic
setBasic(st, db, addr, info) ==
  LET st1 == ensureJournal(st)
      st2 == [st1 EXCEPT !.pendingBasic[addr] = [ok |-> TRUE, info |-> info]]
      ch == info.CodeHash
  IN [st |-> IF ch # ZeroHash /\ ~st2.codeCache[ch].ok
             THEN [st2 EXCEPT !.codeCache[ch] = [ok |-> TRUE, bytes |-> Placeholder]]
             ELSE st2,
      db |-> db]

\* re_state_set_basic: set_account
re_state_set_basic(h, addr, info) ==
  /\ lookupOk(h)
  /\ nWrites < MaxWrites
  /\ LET st == handleMap[h]
         r == setBasic(st, ledger[st.db], addr, info)
     IN /\ handleMap' = [handleMap EXCEPT ![h] = r.st]
        /\ ledger' = [ledger EXCEPT ![st.db] = r.db]
  /\ hist' = [hist EXCEPT ![h].basic[addr] = [ok |-> TRUE, info |-> info],
                          ![h].flushed = FALSE]
  /\ fl' = NoFlush
  /\ nWrites' = nWrites + 1
  /\ UNCHANGED handleSeq

\* setStorage, but writing the slot through to the ledger as well
setStorageWritesThrough(st, db, addr, slot, value) ==
  LET st1 == ensureJournal(st)
  IN [st |-> [st1 EXCEPT !.pendingStorage[addr].ok = TRUE,
                         !.pendingStorage[addr].slots[slot] =
                            [ok |-> TRUE, val |-> value]],
      db |-> SetState(db, addr, slot, value)]

\* the journal and the ledger after re_state_set_storage
setStorage(st, db, addr, slot, value) ==
  LET st1 == ensureJournal(st)
  IN [st |-> [st1 EXCEPT !.pendingStorage[addr].ok = TRUE,
                         !.pendingStorage[addr].slots[slot] =
                            [ok |-> TRUE, val |-> value]],
      db |-> db]

\* re_state_set_storage, but buffering the slot in every registered journal
re_state_set_storageEveryJournal(h, addr, slot, value) ==
  /\ lookupOk(h)
  /\ nWrites < MaxWrites
  /\ handleMap' = [g \in DOMAIN handleMap |->
                     setStorage(handleMap[g], ledger[handleMap[g].db],
                                addr, slot, value).st]
  /\ hist' = [hist EXCEPT
                ![h].storage[addr][slot] = [ok |-> TRUE, val |-> value, derived |-> FALSE],
                ![h].flushed = FALSE]
  /\ fl' = NoFlush
  /\ nWrites' = nWrites + 1
  /\ UNCHANGED <<handleSeq, ledger>>

\* re_state_set_storage: set_storage
re_state_set_storage(h, addr, slot, value) ==
  /\ lookupOk(h)
  /\ nWrites < MaxWrites
  /\ LET st == handleMap[h]
         r == setStorage(st, ledger[st.db], addr, slot, value)
     IN /\ handleMap' = [handleMap EXCEPT ![h] = r.st]
        /\ ledger' = [ledger EXCEPT ![st.db] = r.db]
  /\ hist' = [hist EXCEPT
                ![h].storage[addr][slot] = [ok |-> TRUE, val |-> value, derived |-> FALSE],
                ![h].flushed = FALSE]
  /\ fl' = NoFlush
  /\ nWrites' = nWrites + 1
  /\ UNCHANGED handleSeq

\* storeCode, but keeping an entry the cache already holds for the hash
storeCodeKeepsPrior(st, db, codeHash, code) ==
  [st |-> IF Len(code) = 0 \/ st.codeCache[codeHash].ok THEN st
          ELSE [st EXCEPT !.codeCache[codeHash] = [ok |-> TRUE, bytes |-> code]],
   db |-> db]

\* the journal and the ledger after re_state_store_code (status -2 changes nothing)
storeCode(st, db, codeHash, code) ==
  [st |-> IF Len(code) = 0 THEN st
          ELSE [st EXCEPT !.codeCache[codeHash] = [ok |-> TRUE, bytes |-> code]],
   db |-> db]

\* re_state_store_code: set_code
re_state_store_code(h, codeHash, code) ==
  /\ lookupOk(h)
  /\ nWrites < MaxWrites
  /\ LET st == handleMap[h]
         r == storeCode(st, ledger[st.db], codeHash, code)
     IN /\ handleMap' = [handleMap EXCEPT ![h] = r.st]
        /\ ledger' = [ledger EXCEPT ![st.db] = r.db]
  /\ fl' = NoFlush
  /\ nWrites' = nWrites + 1
  /\ UNCHANGED <<handleSeq, hist>>

\* RevmExecutorStateDB.Prefetch: the code cache after the batch has been read
RECURSIVE prefetchWarm(_, _, _)
prefetchWarm(st, db, keys) ==
  IF Len(keys) = 0 THEN st
  ELSE LET k == Head(keys)
           st1 == IF k.Slot = ZeroSlot
                  THEN [st EXCEPT !.codeCache = BasicWarm(st, db, k.Address)]
                  ELSE st
       IN prefetchWarm(st1, db, Tail(keys))

\* Prefetch, but keeping the first account it read as a pending entry
PrefetchBuffers(h, keys) ==
  /\ lookupOk(h)
  /\ LET st == handleMap[h]
         db == ledger[st.db]
         warmed == prefetchWarm(st, db, keys)
     IN handleMap' =
          [handleMap EXCEPT ![h] =
             IF Len(keys) = 0 THEN warmed
             ELSE [ensureJournal(warmed) EXCEPT
                     !.pendingBasic[Head(keys).Address] =
                        [ok |-> TRUE, info |-> Basic(st, db, Head(keys).Address)]]]
  /\ fl' = NoFlush
  /\ UNCHANGED <<handleSeq, ledger, hist, nWrites>>

Prefetch(h, keys) ==
  /\ lookupOk(h)
  /\ LET st == handleMap[h]
     IN handleMap' = [handleMap EXCEPT ![h] = prefetchWarm(st, ledger[st.db], keys)]
  /\ fl' = NoFlush
  /\ UNCHANGED <<handleSeq, ledger, hist, nWrites>>

\* RevmExecutorStateDB.CallContractCommit of a token transfer: the transaction
\* reads the holder's slot through the journal and writes the value less amt
CallContractCommit(h, addr, slot, amt) ==
  /\ lookupOk(h)
  /\ nWrites < MaxWrites
  /\ LET st == handleMap[h]
         cur == Storage(st, ledger[st.db], addr, slot)
         r == setStorage(st, ledger[st.db], addr, slot, cur - amt)
     IN /\ cur >= amt
        /\ handleMap' = [handleMap EXCEPT ![h] = r.st]
        /\ ledger' = [ledger EXCEPT ![st.db] = r.db]
        /\ hist' = [hist EXCEPT
                      ![h].storage[addr][slot] =
                         [ok |-> TRUE, val |-> cur - amt,
                          derived |-> hist[h].storage[addr][slot].ok],
                      ![h].flushed = FALSE]
  /\ fl' = NoFlush
  /\ nWrites' = nWrites + 1
  /\ UNCHANGED handleSeq

\* ------------------------------------------------------------------------
\* Outbound: flush at the end of the block
\* ------------------------------------------------------------------------
FlushPending(h) ==
  /\ lookupOk(h)
  /\ LET st == handleMap[h]
         r == flushPending(st, ledger[st.db])
     IN /\ handleMap' = [handleMap EXCEPT ![h] = r.st]
        /\ ledger' = [ledger EXCEPT ![st.db] = r.db]
        /\ fl' = [valid |-> TRUE, h |-> h, st |-> st, db |-> ledger[st.db],
                  writes |-> r.writes, hist |-> hist[h],
                  again |-> fl.valid /\ fl.h = h,
                  prevWrites |-> IF fl.valid /\ fl.h = h THEN fl.writes ELSE {}]
  /\ hist' = [hist EXCEPT ![h] = [NoHist EXCEPT !.flushed = TRUE]]
  /\ UNCHANGED <<handleSeq, nWrites>>

\* ------------------------------------------------------------------------
\* Specification: one journal, callbacks issued one at a time
\* ------------------------------------------------------------------------
Next ==
  \/ \E h \in DOMAIN handleMap, a \in Addrs : re_state_basic(h, a) /\ UNCHANGED extra
  \/ \E h \in DOMAIN handleMap, a \in Addrs, s \in Slots : re_state_storage(h, a, s) /\ UNCHANGED extra
  \/ \E h \in DOMAIN handleMap, n \in BlockNumbers : re_state_block_hash(h, n) /\ UNCHANGED extra
  \/ \E h \in DOMAIN handleMap, c \in {RuntimeHash, PlaceholderHash} :
       re_state_code(h, c) /\ UNCHANGED extra
  \/ \E h \in DOMAIN handleMap, a \in Addrs, i \in Infos : re_state_set_basic(h, a, i) /\ UNCHANGED extra
  \/ \E h \in DOMAIN handleMap, a \in Addrs, s \in Slots, v \in Words :
       re_state_set_storage(h, a, s, v) /\ UNCHANGED extra
  \/ \E h \in DOMAIN handleMap, c \in {NoBytes, Runtime} :
       re_state_store_code(h, RuntimeHash, c) /\ UNCHANGED extra
  \/ \E h \in DOMAIN handleMap, keys \in SeqsUpTo(BatchKeys, MaxKeys) : Prefetch(h, keys) /\ UNCHANGED extra
  \/ \E h \in DOMAIN handleMap, a \in Addrs, s \in Slots, amt \in Amounts :
       CallContractCommit(h, a, s, amt) /\ UNCHANGED extra
  \/ \E h \in DOMAIN handleMap : FlushPending(h) /\ UNCHANGED extra

Spec == Init /\ [][Next]_vars

TypeOK ==
  /\ handleSeq \in Nat
  /\ nWrites \in 0..MaxWrites
  /\ \A h \in DOMAIN handleMap : handleMap[h].db \in DBs

\* ------------------------------------------------------------------------
\* Properties
\* ------------------------------------------------------------------------
Journal(h) == handleMap[h]
LedgerOf(h) == ledger[handleMap[h].db]

\* what a cold read of the ledger returns for an account
LedgerInfo(db, addr) ==
  AccountInfo(uint256ToFFIU256(GetBalance(db, addr)), GetNonce(db, addr),
              GetCodeHash(db, addr))

\* C1: read-your-writes for accounts. After set_account(J, a, v), and until
\* the next write to a or the next flush of J, read_account(J, a) returns
\* exactly v, whatever the ledger holds for a.
ReadYourWritesAccount ==
  \A h \in DOMAIN handleMap, a \in Addrs :
    hist[h].basic[a].ok =>
      Basic(Journal(h), LedgerOf(h), a) = hist[h].basic[a].info

\* a written account info that differs from the ledger's in every field
ReadYourWritesAccountWitness ==
  \E h \in DOMAIN handleMap, a \in Addrs :
    /\ hist[h].basic[a].ok
    /\ hist[h].basic[a].info.Balance # LedgerInfo(LedgerOf(h), a).Balance
    /\ hist[h].basic[a].info.Nonce # LedgerInfo(LedgerOf(h), a).Nonce
    /\ hist[h].basic[a].info.CodeHash # LedgerInfo(LedgerOf(h), a).CodeHash

\* C2: storage read precedence. read_storage(J, a, s) returns the last value
\* written to (a, s) since the last flush of J if there is one (a written
\* zero word included), and the ledger's value otherwise.
StorageReadPrecedence ==
  \A h \in DOMAIN handleMap, a \in Addrs, s \in Slots :
    Storage(Journal(h), LedgerOf(h), a, s) =
      IF hist[h].storage[a][s].ok THEN hist[h].storage[a][s].val
      ELSE GetState(LedgerOf(h), a, s)

\* a zero word written over a non-zero ledger value, next to an unwritten
\* slot of the same account
StorageReadPrecedenceWitness ==
  \E h \in DOMAIN handleMap, a \in Addrs, s \in Slots, t \in Slots :
    /\ hist[h].storage[a][s].ok
    /\ hist[h].storage[a][s].val = 0
    /\ GetState(LedgerOf(h), a, s) # 0
    /\ ~hist[h].storage[a][t].ok

FlushedJournal == fl.st
LedgerBefore == fl.db
LedgerAfter == ledger[fl.st.db]

\* the address has a pending account info at the flush
PendingAt(a) == fl.st.pendingBasic[a].ok
PendingInfo(a) == fl.st.pendingBasic[a].info
PendingBalance(a) == ffiU256ToUint256Go(PendingInfo(a).Balance)

\* the flush elides the address as an empty account
Elided(a) == PendingAt(a) /\ isEmptyAccount(PendingInfo(a))

\* the slot has a pending word at the flush
PendingSlotAt(a, s) ==
  fl.st.pendingStorage[a].ok /\ fl.st.pendingStorage[a].slots[s].ok

\* ledger writes the flush issued for the address
WritesFor(a) == {w \in fl.writes : w.addr = a}

\* C4: multi-transaction merge within a block. When successive transactions
\* write the same (address, slot) and a later one derives its value from
\* the earlier one read through the journal, flush leaves the ledger slot
\* equal to the last value written, for every address that is not elided as
\* an empty account.
MultiTxMerge ==
  fl.valid =>
    \A a \in Addrs, s \in Slots :
      (fl.hist.storage[a][s].ok /\ fl.hist.storage[a][s].derived /\ ~Elided(a)) =>
        GetState(LedgerAfter, a, s) = fl.hist.storage[a][s].val

\* a derived, non-zero last value replaced a different ledger word
MultiTxMergeWitness ==
  /\ fl.valid
  /\ \E a \in Addrs, s \in Slots :
       /\ fl.hist.storage[a][s].ok
       /\ fl.hist.storage[a][s].derived
       /\ ~Elided(a)
       /\ fl.hist.storage[a][s].val > 0
       /\ GetState(LedgerBefore, a, s) # fl.hist.storage[a][s].val
       /\ GetState(LedgerAfter, a, s) = fl.hist.storage[a][s].val

\* C5: flush clears the journal. After flush(J) returns and until the next
\* write, both pending overlays of J are empty, has_pending_overlay reports
\* false, and read_account / read_storage on J return the ledger's values.
FlushClearsJournal ==
  \A h \in DOMAIN handleMap :
    hist[h].flushed =>
      /\ LenBasic(Journal(h)) = 0
      /\ LenStorage(Journal(h)) = 0
      /\ HasPendingOverlay(Journal(h).db) = {FALSE}
      /\ \A a \in Addrs :
           Basic(Journal(h), LedgerOf(h), a) = LedgerInfo(LedgerOf(h), a)
      /\ \A a \in Addrs, s \in Slots :
           Storage(Journal(h), LedgerOf(h), a, s) = GetState(LedgerOf(h), a, s)

\* the flush found both overlays non-empty and changed the ledger
FlushClearsJournalWitness ==
  /\ fl.valid
  /\ hist[fl.h].flushed
  /\ LenBasic(FlushedJournal) > 0
  /\ LenStorage(FlushedJournal) > 0
  /\ LedgerAfter # LedgerBefore

\* C6: at-least-once application of changed values. For every address whose
\* pending balance or nonce differs from the ledger's at flush time, the
\* ledger's balance and nonce equal the pending values after the flush.
AtLeastOnceChanged ==
  fl.valid =>
    \A a \in Addrs :
      (/\ PendingAt(a)
       /\ \/ PendingBalance(a) # GetBalance(LedgerBefore, a)
          \/ PendingInfo(a).Nonce # GetNonce(LedgerBefore, a)) =>
        /\ GetBalance(LedgerAfter, a) = PendingBalance(a)
        /\ GetNonce(LedgerAfter, a) = PendingInfo(a).Nonce

SameBalanceAndNonce(a) ==
  /\ PendingAt(a)
  /\ PendingBalance(a) = GetBalance(LedgerBefore, a)
  /\ PendingInfo(a).Nonce = GetNonce(LedgerBefore, a)

\* no balance and no nonce write for the address, every pending slot written
SuppressedButStorageWritten(a) ==
  /\ LedgerWrite("SetBalance", a, NoSlot) \notin fl.writes
  /\ LedgerWrite("SetNonce", a, NoSlot) \notin fl.writes
  /\ \A s \in Slots :
       PendingSlotAt(a, s) =>
         /\ LedgerWrite("SetState", a, s) \in fl.writes
         /\ GetState(LedgerAfter, a, s) = fl.st.pendingStorage[a].slots[s].val

\* C8 as stated: no-op suppression. For an address whose pending balance and
\* nonce both equal the ledger's, flush issues no balance and no nonce
\* write, while the pending storage slots of the address are still written.
NoOpSuppressionAsStated ==
  fl.valid =>
    \A a \in Addrs : SameBalanceAndNonce(a) => SuppressedButStorageWritten(a)

\* C8: no-op suppression, for an address that is not elided as an empty
\* account: pending balance and nonce equal to the ledger's give no balance
\* and no nonce write, and the pending storage slots are still written.
NoOpSuppression ==
  fl.valid =>
    \A a \in Addrs :
      (SameBalanceAndNonce(a) /\ ~Elided(a)) => SuppressedButStorageWritten(a)

\* a funded account kept its balance and nonce and had a changed slot flushed
NoOpSuppressionWitness ==
  /\ fl.valid
  /\ \E a \in Addrs, s \in Slots :
       /\ SameBalanceAndNonce(a)
       /\ ~Elided(a)
       /\ PendingBalance(a) > 0
       /\ PendingSlotAt(a, s)
       /\ GetState(LedgerBefore, a, s) # GetState(LedgerAfter, a, s)

\* C9: deferred code materialization. For every pending account whose code
\* hash is not a no-code hash, if the ledger reports zero code length for
\* the address and the code cache holds bytes for that hash, then after the
\* flush the ledger holds those bytes as the address's code.
DeferredCodeMaterialization ==
  fl.valid =>
    \A a \in Addrs :
      (/\ PendingAt(a)
       /\ PendingInfo(a).CodeHash \notin {ZeroHash, EmptyCodeHash}
       /\ GetCodeSize(LedgerBefore, a) = 0
       /\ Len(CodeByHash(FlushedJournal, PendingInfo(a).CodeHash)) > 0) =>
        GetCode(LedgerAfter, a) = CodeByHash(FlushedJournal, PendingInfo(a).CodeHash)

\* C10: flush idempotence. A flush of a journal that was flushed before and
\* not written since performs no ledger write and leaves the ledger exactly
\* as the earlier flush left it.
FlushIdempotence ==
  (fl.valid /\ fl.hist.flushed) => (fl.writes = {} /\ LedgerAfter = LedgerBefore)

\* the second of two flushes in a row, the first of which wrote to the ledger
FlushIdempotenceWitness ==
  /\ fl.valid
  /\ fl.again
  /\ fl.hist.flushed
  /\ fl.prevWrites # {}

\* ------------------------------------------------------------------------
\* Snapshot executor: RevmExecutorStateDB.Clone / Commit / Close
\* ------------------------------------------------------------------------
\* the frame of the snapshot actions that do not touch the journal
journalVars ==
  <<handleMap, handleSeq, ledger, hist, fl, nWrites, reg, ret, thr, mem>>

\* the snapshot has been consumed (Commit set e.inst = nil, or Close freed it)
Consumed == snap.status \in {"merged", "closed"}

\* Clone: the clone shares the handle and owns a private cache
Clone(h) ==
  /\ lookupOk(h)
  /\ snap.status = "none"
  /\ snap' = [NoSnap EXCEPT !.status = "open", !.inst = TRUE, !.handle = h,
                            !.basic = EmptyBasicMap, !.storage = EmptyStorageMap,
                            !.pre = [st |-> handleMap[h], db |-> ledger[handleMap[h].db]]]
  /\ UNCHANGED journalVars

\* a transaction run on the clone writes an account into the private cache
snapSetBasic(addr, info) ==
  /\ snap.status = "open"
  /\ nWrites < MaxWrites
  /\ snap' = [snap EXCEPT !.basic[addr] = [ok |-> TRUE, info |-> info]]
  /\ nWrites' = nWrites + 1
  /\ UNCHANGED <<handleMap, handleSeq, ledger, hist, fl, reg, ret, thr, mem>>

\* a transaction run on the clone writes a slot into the private cache
snapSetStorage(addr, slot, value) ==
  /\ snap.status = "open"
  /\ nWrites < MaxWrites
  /\ snap' = [snap EXCEPT !.storage[addr].ok = TRUE,
                          !.storage[addr].slots[slot] = [ok |-> TRUE, val |-> value]]
  /\ nWrites' = nWrites + 1
  /\ UNCHANGED <<handleMap, handleSeq, ledger, hist, fl, reg, ret, thr, mem>>

\* the touched accounts and slots of the private cache
snapEntries ==
  {<<"basic", a, NoSlot>> : a \in {x \in Addrs : snap.basic[x].ok}}
    \cup {<<"storage", k[1], k[2]>> :
            k \in {x \in Addrs \X Slots :
                     snap.storage[x[1]].ok /\ snap.storage[x[1]].slots[x[2]].ok}}

\* the journal after the callback the commit walk issues for one entry
mergeEntry(st, db, k) ==
  IF k[1] = "basic"
  THEN setBasic(st, db, k[2], snap.basic[k[2]].info).st
  ELSE setStorage(st, db, k[2], k[3], snap.storage[k[2]].slots[k[3]].val).st

RECURSIVE mergeAll(_, _, _)
mergeAll(st, db, todo) ==
  IF todo = {} THEN st
  ELSE LET k == CHOOSE x \in todo : TRUE
       IN mergeAll(mergeEntry(st, db, k), db, todo \ {k})

\* Commit, entry: the guard of Commit and the start of revm_snapshot_commit
CommitBegin ==
  /\ snap.status = "open"
  /\ snap.inst
  /\ lookupOk(snap.handle)
  /\ LET st == handleMap[snap.handle]
     IN snap' = [snap EXCEPT !.status = "merging", !.todo = snapEntries,
                             !.before = st,
                             !.after = mergeAll(st, ledger[st.db], snapEntries)]
  /\ UNCHANGED journalVars

\* Commit, walk: one touched account or slot goes through its callback
CommitStep(k) ==
  /\ snap.status = "merging"
  /\ k \in snap.todo
  /\ LET h == snap.handle
         st == handleMap[h]
     IN /\ handleMap' = [handleMap EXCEPT ![h] = mergeEntry(st, ledger[st.db], k)]
        /\ hist' = IF k[1] = "basic"
                   THEN [hist EXCEPT ![h].basic[k[2]] = snap.basic[k[2]],
                                     ![h].flushed = FALSE]
                   ELSE [hist EXCEPT
                           ![h].storage[k[2]][k[3]] =
                              [ok |-> TRUE, val |-> snap.storage[k[2]].slots[k[3]].val,
                               derived |-> FALSE],
                           ![h].flushed = FALSE]
  /\ snap' = [snap EXCEPT !.todo = snap.todo \ {k}]
  /\ fl' = NoFlush
  /\ UNCHANGED <<handleSeq, ledger, nWrites, reg, ret, thr, mem>>

\* Commit, exit: caches cleared, e.inst = nil
CommitEnd ==
  /\ snap.status = "merging"
  /\ snap.todo = {}
  /\ snap' = [snap EXCEPT !.status = "merged", !.inst = FALSE]
  /\ UNCHANGED journalVars

\* Commit on a clone whose inst is nil: the guard returns
CommitConsumed ==
  /\ Consumed
  /\ ~snap.inst
  /\ snap' = [snap EXCEPT !.misuse = "Commit", !.reported = FALSE]
  /\ UNCHANGED journalVars

\* Prefetch on a clone whose inst is nil: the guard returns
PrefetchConsumed(keys) ==
  /\ Consumed
  /\ Len(keys) = 0 \/ ~snap.inst
  /\ snap' = [snap EXCEPT !.misuse = "Prefetch", !.reported = FALSE]
  /\ UNCHANGED journalVars

\* Close, but only freeing the instance
CloseFreesOnly ==
  /\ snap.status \in {"open", "merged", "closed"}
  /\ snap.handle # 0
  /\ snap' = [snap EXCEPT !.status = "closed", !.inst = FALSE,
                          !.discarded = (snap.status = "open") \/ snap.discarded,
                          !.misuse = IF Consumed THEN "Close" ELSE snap.misuse,
                          !.reported = FALSE]
  /\ UNCHANGED journalVars

\* Close of the clone: FlushPending(e.handle), then the instance is freed
Close ==
  /\ snap.status \in {"open", "merged", "closed"}
  /\ snap.handle # 0
  /\ FlushPending(snap.handle)
  /\ snap' = [snap EXCEPT !.status = "closed", !.inst = FALSE,
                          !.discarded = (snap.status = "open") \/ snap.discarded,
                          !.misuse = IF Consumed THEN "Close" ELSE snap.misuse,
                          !.reported = FALSE]
  /\ UNCHANGED <<reg, ret, thr, mem>>

\* values the transactions on the clone write
SnapInfos == {AccountInfo(uint256ToFFIU256(1), 1, EmptyCodeHash)}
SnapWords == {2}

\* Specification: the block's journal is written, a clone is taken, written,
\* and committed or closed, while the journal stays readable
SnapNext ==
  \/ \E h \in DOMAIN handleMap, a \in Addrs, i \in Infos :
       snap.status = "none" /\ re_state_set_basic(h, a, i) /\ UNCHANGED extra
  \/ \E h \in DOMAIN handleMap, a \in Addrs, s \in Slots, v \in Words :
       snap.status = "none" /\ re_state_set_storage(h, a, s, v) /\ UNCHANGED extra
  \/ \E h \in DOMAIN handleMap, a \in Addrs : re_state_basic(h, a) /\ UNCHANGED extra
  \/ \E h \in DOMAIN handleMap : Clone(h)
  \/ \E a \in Addrs, i \in SnapInfos : snapSetBasic(a, i)
  \/ \E a \in Addrs, v \in SnapWords : snapSetStorage(a, "s1", v)
  \/ CommitBegin
  \/ \E k \in snap.todo : CommitStep(k)
  \/ CommitEnd
  \/ CommitConsumed
  \/ \E keys \in SeqsUpTo(BatchKeys, MaxKeys) : PrefetchConsumed(keys)
  \/ Close

SnapSpec == Init /\ [][SnapNext]_vars

\* C11: snapshot discard leaves no trace. Closing a clone that was never
\* committed leaves the parent journal's pending overlays and the ledger
\* exactly as they were when the clone was taken.
SnapshotDiscardNoTrace ==
  (snap.status = "closed" /\ snap.discarded) =>
    /\ Journal(snap.handle).pendingBasic = snap.pre.st.pendingBasic
    /\ Journal(snap.handle).pendingStorage = snap.pre.st.pendingStorage
    /\ LedgerOf(snap.handle) = snap.pre.db

\* the view of a reader of the journal: its two pending overlays
Overlays(st) == <<st.pendingBasic, st.pendingStorage>>

\* C12: snapshot merge is all-or-nothing. While a clone that wrote two
\* addresses is merged, the journal read by anyone else is either as before
\* the whole merge or as after it.
SnapshotMergeAllOrNothing ==
  snap.status = "merging" =>
    Overlays(Journal(snap.handle)) \in {Overlays(snap.before), Overlays(snap.after)}

\* C13: snapshot state machine Open -> {Merged, Discarded}. A Commit, Close
\* or Prefetch on an already consumed clone is reported as an error.
SnapshotMisuseReported ==
  snap.misuse # "-" => snap.reported

\* ------------------------------------------------------------------------
\* Handle registry: NewStateDB / ReleaseStateDB / lookup, and the status
\* codes of the callbacks
\* ------------------------------------------------------------------------
\* the frame of the registry actions
callVars == <<ledger, fl, nWrites, snap, thr>>

\* a nil *state.StateDB
NilDB == "nil"

\* handles a caller may pass: the null handle, handed-out and future ones
Handles == 0..MaxHandles

\* atomic.AddUintptr, but handing out the lowest handle not in the registry
nextHandleReuses(seq) ==
  CHOOSE h \in 1..(seq + 1) :
    h \notin DOMAIN handleMap /\ \A g \in 1..(h - 1) : g \in DOMAIN handleMap

\* atomic.AddUintptr(&handleSeq, 1)
nextHandle(seq) == seq + 1

\* NewStateDB, but taking a handle number before the nil check
NewStateDBAddCountsNil(c, db) ==
  /\ reg.callers[c].pc = "idle"
  /\ handleSeq < MaxHandles
  /\ handleSeq' = nextHandle(handleSeq)
  /\ IF db = NilDB
     THEN /\ ret' = [op |-> "NewStateDB", h |-> 0, valid |-> FALSE, status |-> 0]
          /\ UNCHANGED reg
     ELSE /\ reg' = [reg EXCEPT !.callers[c] = [pc |-> "store", h |-> handleSeq'],
                                !.issued = Append(reg.issued, handleSeq')]
          /\ ret' = NoRet
  /\ UNCHANGED <<handleMap, hist>>
  /\ UNCHANGED callVars

\* NewStateDB, first half: nil check and the atomic increment
NewStateDBAdd(c, db) ==
  /\ reg.callers[c].pc = "idle"
  /\ IF db = NilDB
     THEN /\ ret' = [op |-> "NewStateDB", h |-> 0, valid |-> FALSE, status |-> 0]
          /\ UNCHANGED <<handleSeq, reg>>
     ELSE /\ handleSeq < MaxHandles
          /\ handleSeq' = nextHandle(handleSeq)
          /\ reg' = [reg EXCEPT !.callers[c] = [pc |-> "store", h |-> handleSeq'],
                                !.issued = Append(reg.issued, handleSeq')]
          /\ ret' = NoRet
  /\ UNCHANGED <<handleMap, hist>>
  /\ UNCHANGED callVars

\* NewStateDB, second half: handleMap.Store(h, &stateDBImpl{db: db}); return h
NewStateDBStore(c) ==
  /\ reg.callers[c].pc = "store"
  /\ LET h == reg.callers[c].h
     IN /\ handleMap' = (h :> NewJournal(TheDB)) @@ handleMap
        /\ hist' = (h :> NoHist) @@ hist
        /\ reg' = [reg EXCEPT !.callers[c] = [pc |-> "idle", h |-> 0],
                              !.returned = reg.returned \cup {h}]
        /\ ret' = [op |-> "NewStateDB", h |-> h, valid |-> TRUE, status |-> 0]
  /\ UNCHANGED handleSeq
  /\ UNCHANGED callVars

\* ReleaseStateDB, but leaving the entry in the registry
ReleaseStateDBKeeps(h) ==
  /\ reg' = [reg EXCEPT !.released = reg.released \cup {h}]
  /\ ret' = NoRet
  /\ UNCHANGED <<handleMap, handleSeq, hist>>
  /\ UNCHANGED callVars

\* ReleaseStateDB, but flushing the journal before it drops the entry
ReleaseStateDBFlushes(h) ==
  /\ handleMap' = [g \in DOMAIN handleMap \ {h} |-> handleMap[g]]
  /\ ledger' = IF lookupOk(h)
               THEN [ledger EXCEPT ![handleMap[h].db] =
                       flushPending(handleMap[h], ledger[handleMap[h].db]).db]
               ELSE ledger
  /\ reg' = [reg EXCEPT !.released = reg.released \cup {h}]
  /\ ret' = NoRet
  /\ UNCHANGED <<handleSeq, hist, fl, nWrites, snap, thr>>

\* ReleaseStateDB: handleMap.Delete(h)
ReleaseStateDB(h) ==
  /\ handleMap' = [g \in DOMAIN handleMap \ {h} |-> handleMap[g]]
  /\ reg' = [reg EXCEPT !.released = reg.released \cup {h}]
  /\ ret' = NoRet
  /\ UNCHANGED <<handleSeq, hist>>
  /\ UNCHANGED callVars

\* the status a callback returns for a handle that lookup does not find
InvalidHandle == 0 - 1
NotFound == 1
NoCodeGiven == 0 - 2

\* the callback returns -1 and has touched nothing
invalidCall(op, h) ==
  /\ ret' = [op |-> op, h |-> h, valid |-> FALSE, status |-> InvalidHandle]
  /\ UNCHANGED <<handleMap, handleSeq, hist, reg>>
  /\ UNCHANGED callVars

\* re_state_basic: 1 for an all-zero account info, 0 otherwise
basicStatus(info) ==
  IF info.Nonce = 0 /\ (\A i \in 1..Len(info.Balance) : info.Balance[i] = 0)
     /\ info.CodeHash = ZeroHash
  THEN NotFound ELSE 0

get_account(h, addr) ==
  IF ~lookupOk(h) THEN invalidCall("get_account", h)
  ELSE /\ re_state_basic(h, addr)
       /\ ret' = [op |-> "get_account", h |-> h, valid |-> TRUE,
                  status |-> basicStatus(Basic(handleMap[h], ledger[handleMap[h].db], addr))]
       /\ UNCHANGED <<snap, reg, thr>>

get_storage(h, addr, slot) ==
  IF ~lookupOk(h) THEN invalidCall("get_storage", h)
  ELSE /\ re_state_storage(h, addr, slot)
       /\ ret' = [op |-> "get_storage", h |-> h, valid |-> TRUE, status |-> 0]
       /\ UNCHANGED <<snap, reg, thr>>

get_block_hash(h, number) ==
  IF ~lookupOk(h) THEN invalidCall("get_block_hash", h)
  ELSE /\ re_state_block_hash(h, number)
       /\ ret' = [op |-> "get_block_hash", h |-> h, valid |-> TRUE, status |-> 0]
       /\ UNCHANGED <<snap, reg, thr>>

\* get_code, but answering an unknown handle like an unknown hash
get_codeNotFoundForAll(h, codeHash) ==
  IF ~lookupOk(h)
  THEN /\ ret' = [op |-> "get_code", h |-> h, valid |-> FALSE, status |-> NotFound]
       /\ UNCHANGED <<handleMap, handleSeq, hist, reg>>
       /\ UNCHANGED callVars
  ELSE /\ re_state_code(h, codeHash)
       /\ ret' = [op |-> "get_code", h |-> h, valid |-> TRUE,
                  status |-> IF Len(CodeByHash(handleMap[h], codeHash)) = 0
                             THEN NotFound ELSE 0]
       /\ UNCHANGED <<snap, reg, thr>>

get_code(h, codeHash) ==
  IF ~lookupOk(h) THEN invalidCall("get_code", h)
  ELSE /\ re_state_code(h, codeHash)
       /\ ret' = [op |-> "get_code", h |-> h, valid |-> TRUE,
                  status |-> IF Len(CodeByHash(handleMap[h], codeHash)) = 0
                             THEN NotFound ELSE 0]
       /\ UNCHANGED <<snap, reg, thr>>

set_account(h, addr, info) ==
  IF ~lookupOk(h) THEN invalidCall("set_account", h)
  ELSE /\ re_state_set_basic(h, addr, info)
       /\ ret' = [op |-> "set_account", h |-> h, valid |-> TRUE, status |-> 0]
       /\ UNCHANGED <<snap, reg, thr>>

set_storage(h, addr, slot, value) ==
  IF ~lookupOk(h) THEN invalidCall("set_storage", h)
  ELSE /\ re_state_set_storage(h, addr, slot, value)
       /\ ret' = [op |-> "set_storage", h |-> h, valid |-> TRUE, status |-> 0]
       /\ UNCHANGED <<snap, reg, thr>>

set_code(h, codeHash, code) ==
  IF ~lookupOk(h) THEN invalidCall("set_code", h)
  ELSE /\ re_state_store_code(h, codeHash, code)
       /\ ret' = [op |-> "set_code", h |-> h, valid |-> TRUE,
                  status |-> IF Len(code) = 0 THEN NoCodeGiven ELSE 0]
       /\ UNCHANGED <<snap, reg, thr>>

\* what the callers of this specification pass
RegInfos == {ZeroInfo, AccountInfo(uint256ToFFIU256(1), 0, RuntimeHash)}

\* Specification: goroutines register and release journals while the
\* execution core reads and writes accounts through any handle
RegNext ==
  \/ \E c \in Callers, db \in DBs \cup {NilDB} : NewStateDBAdd(c, db) /\ UNCHANGED mem
  \/ \E c \in Callers : NewStateDBStore(c) /\ UNCHANGED mem
  \/ \E h \in reg.returned : ReleaseStateDB(h) /\ UNCHANGED mem
  \/ \E h \in Handles : get_account(h, "a2") /\ UNCHANGED mem
  \/ \E h \in Handles, i \in RegInfos : set_account(h, "a1", i) /\ UNCHANGED mem

RegSpec == Init /\ [][RegNext]_vars

\* the null handle, the block's handle and a handle never handed out
CallHandles == {0, TheHandle, TheHandle + 1}

\* Specification: every callback arrives with every kind of handle, before
\* and after the block's handle is released
CallNext ==
  \/ \E h \in reg.returned : ReleaseStateDB(h) /\ UNCHANGED mem
  \/ \E h \in CallHandles, a \in Addrs : get_account(h, a) /\ UNCHANGED mem
  \/ \E h \in CallHandles : get_storage(h, "a2", "s1") /\ UNCHANGED mem
  \/ \E h \in CallHandles : get_block_hash(h, 1) /\ UNCHANGED mem
  \/ \E h \in CallHandles, c \in {RuntimeHash, PlaceholderHash} : get_code(h, c) /\ UNCHANGED mem
  \/ \E h \in CallHandles, i \in RegInfos : set_account(h, "a1", i) /\ UNCHANGED mem
  \/ \E h \in CallHandles, v \in Words : set_storage(h, "a2", "s1", v) /\ UNCHANGED mem
  \/ \E h \in CallHandles, c \in {NoBytes, Runtime} : set_code(h, RuntimeHash, c) /\ UNCHANGED mem

CallSpec == Init /\ [][CallNext]_vars

\* C14: handle lifecycle. A handle NewStateDB has returned is found by lookup
\* until it is released and is not found after its release; releasing one
\* handle does not change the lookup result of another.
HandleLifecycle ==
  /\ \A h \in reg.returned \ reg.released : lookupOk(h)
  /\ \A h \in reg.released : ~lookupOk(h)

\* one handle was released while another, handed out later, is still in use
HandleLifecycleWitness ==
  \E g \in reg.released, h \in reg.returned \ reg.released :
    g < h /\ ~lookupOk(g) /\ lookupOk(h)

\* C15: handle uniqueness. Under every interleaving of register and release
\* calls, no handle is handed out twice, released handles included.
HandleUniqueness ==
  \A i, j \in 1..Len(reg.issued) : i # j => reg.issued[i] # reg.issued[j]

\* two registrations in flight at once, after a release
HandleUniquenessWitness ==
  /\ reg.released # {}
  /\ \A c \in Callers : reg.callers[c].pc = "store"

\* C16: invalid handle is signalled distinctly. A callback called with a
\* handle that was never registered or was released returns -1, a status no
\* call with a registered handle returns, and changes no journal and no
\* ledger.
InvalidHandleSignalled ==
  [][/\ (ret'.op \in {"get_account", "get_storage", "get_block_hash", "get_code",
                      "set_account", "set_storage", "set_code"} /\ ~ret'.valid) =>
          (ret'.status = InvalidHandle /\ handleMap' = handleMap /\ ledger' = ledger)
     /\ ret'.valid => ret'.status \in {0, NotFound, NoCodeGiven}]_vars

\* a write callback has just returned for a released handle
InvalidHandleSignalledWitness ==
  /\ ret.op \in {"set_account", "set_storage", "set_code"}
  /\ ~ret.valid
  /\ ret.h \in reg.released

\* ------------------------------------------------------------------------
\* re_state_set_storage step by step, next to set_account and flush calls
\* of other goroutines on the same journal
\* ------------------------------------------------------------------------
\* the frame of the steps of the running call
thrVars == <<handleSeq, ledger, hist, fl, snap, reg, ret, mem>>

\* entry: lookup finds the journal
setStorageBegin(h, addr, slot, value) ==
  /\ lookupOk(h)
  /\ thr.pc \in {"idle", "done"}
  /\ thr.status # "panic"
  /\ nWrites < MaxWrites
  /\ thr' = [NoThr EXCEPT !.pc = "ensureBasic", !.h = h, !.addr = addr,
                          !.slot = slot, !.value = value]
  /\ nWrites' = nWrites + 1
  /\ UNCHANGED handleMap
  /\ UNCHANGED thrVars

\* st.ensureJournal(), before st.mu.Lock(): if s.pendingBasic == nil
ensureBasicTest ==
  /\ thr.pc = "ensureBasic"
  /\ thr' = [thr EXCEPT !.pc = "allocBasic",
                        !.nilBasic = handleMap[thr.h].pendingBasicNil]
  /\ UNCHANGED <<handleMap, nWrites>>
  /\ UNCHANGED thrVars

\* s.pendingBasic = make(...)
ensureBasicAlloc ==
  /\ thr.pc = "allocBasic"
  /\ handleMap' = IF thr.nilBasic
                  THEN [handleMap EXCEPT ![thr.h].pendingBasicNil = FALSE,
                                         ![thr.h].pendingBasic = EmptyBasicMap]
                  ELSE handleMap
  /\ thr' = [thr EXCEPT !.pc = "ensureStorage"]
  /\ UNCHANGED nWrites
  /\ UNCHANGED thrVars

\* if s.pendingStorage == nil
ensureStorageTest ==
  /\ thr.pc = "ensureStorage"
  /\ thr' = [thr EXCEPT !.pc = "allocStorage",
                        !.nilStorage = handleMap[thr.h].pendingStorageNil]
  /\ UNCHANGED <<handleMap, nWrites>>
  /\ UNCHANGED thrVars

\* s.pendingStorage = make(...)
ensureStorageAlloc ==
  /\ thr.pc = "allocStorage"
  /\ handleMap' = IF thr.nilStorage
                  THEN [handleMap EXCEPT ![thr.h].pendingStorageNil = FALSE,
                                         ![thr.h].pendingStorage = EmptyStorageMap]
                  ELSE handleMap
  /\ thr' = [thr EXCEPT !.pc = "locked"]
  /\ UNCHANGED nWrites
  /\ UNCHANGED thrVars

\* st.mu.Lock() ... st.mu.Unlock(): the write into pendingStorage; writing
\* an entry of a nil map panics
setStorageLocked ==
  /\ thr.pc = "locked"
  /\ LET st == handleMap[thr.h]
     IN IF st.pendingStorageNil
        THEN /\ thr' = [thr EXCEPT !.pc = "done", !.status = "panic"]
             /\ UNCHANGED <<handleMap, hist>>
        ELSE /\ handleMap' = [handleMap EXCEPT
                                ![thr.h].pendingStorage[thr.addr].ok = TRUE,
                                ![thr.h].pendingStorage[thr.addr].slots[thr.slot] =
                                   [ok |-> TRUE, val |-> thr.value]]
             /\ hist' = [hist EXCEPT
                           ![thr.h].storage[thr.addr][thr.slot] =
                              [ok |-> TRUE, val |-> thr.value, derived |-> FALSE],
                           ![thr.h].flushed = FALSE]
             /\ thr' = [thr EXCEPT !.pc = "done", !.status = "0"]
  /\ UNCHANGED <<handleSeq, ledger, fl, nWrites, snap, reg, ret, mem>>

\* Specification: one goroutine runs set_storage calls step by step while
\* others call set_account and flush on the same journal
ConcNext ==
  \/ \E h \in DOMAIN handleMap, v \in {1, 2} : setStorageBegin(h, "a2", "s1", v)
  \/ ensureBasicTest
  \/ ensureBasicAlloc
  \/ ensureStorageTest
  \/ ensureStorageAlloc
  \/ setStorageLocked
  \/ \E h \in DOMAIN handleMap, a \in Addrs, i \in RegInfos :
       re_state_set_basic(h, a, i) /\ UNCHANGED extra
  \/ \E h \in DOMAIN handleMap : FlushPending(h) /\ UNCHANGED extra

ConcSpec == Init /\ [][ConcNext]_vars

\* C17: no internal fatal condition crosses the call boundary. Under every
\* interleaving of callbacks and flush on one journal a callback returns a
\* status code and never panics; a set_storage around a concurrent flush
\* still returns 0.
CallbacksNeverPanic ==
  thr.pc = "done" => thr.status = "0"

\* C18: the pending overlays are mutated only under the journal's lock, so
\* under every interleaving of set_account and set_storage every call that
\* returned 0 has its value in the pending overlay (until the next flush).
AcceptedWritesKept ==
  \A h \in DOMAIN handleMap :
    /\ \A a \in Addrs :
         hist[h].basic[a].ok =>
           /\ BasicPending(Journal(h), a)
           /\ Journal(h).pendingBasic[a].info = hist[h].basic[a].info
    /\ \A a \in Addrs, s \in Slots :
         hist[h].storage[a][s].ok =>
           /\ StoragePending(Journal(h), a, s)
           /\ Journal(h).pendingStorage[a].slots[s].val = hist[h].storage[a][s].val

\* ---- the code cache and the buffers of its caller ----------------------
\* the bytes the caller can put into the buffer it passes to set_code
CodeInputs == {Placeholder, Runtime}
CodeKeys == {RuntimeHash, PlaceholderHash}
NoRead == NoMem.read

\* the cache entries that live in the buffer `buf` take the bytes written to it
writeThrough(st, buf, bytes) ==
  [st EXCEPT !.codeCache =
     [c \in Hashes |->
        IF st.codeCache[c].ok /\ mem.cacheBuf[c] = buf
        THEN [ok |-> TRUE, bytes |-> bytes]
        ELSE st.codeCache[c]]]

\* re_state_store_code, but keeping the caller's buffer in the cache
storedBackingAliases(src) == src

\* append([]byte(nil), data...) of the C.GoBytes copy: the entry gets a
\* backing array of its own, whatever buffer the bytes came from
storedBacking(src) == "own"

\* append([]byte(nil), b...) in CodeByHash, then C.CBytes: the buffer handed
\* out is fresh, so the entry stays in the backing array `cur` it had
returnedBacking(cur) == cur

\* the caller writes `bytes` into the buffer it passes (or passed) to set_code
fillInput(bytes) ==
  /\ bytes # mem.input
  /\ handleMap' = [h \in DOMAIN handleMap |->
                     writeThrough(handleMap[h], "input", bytes)]
  /\ mem' = [mem EXCEPT !.input = bytes, !.read = NoRead]
  /\ UNCHANGED <<handleSeq, ledger, hist, fl, nWrites, snap, reg, ret, thr>>

\* set_code with the caller's buffer (a nil pointer when useBuf is FALSE)
codeStore(h, codeHash, useBuf) ==
  LET code == IF useBuf THEN mem.input ELSE NoBytes
  IN /\ set_code(h, codeHash, code)
     /\ mem' = IF Len(code) = 0 THEN [mem EXCEPT !.read = NoRead]
               ELSE [mem EXCEPT
                       !.stored[codeHash] = [ok |-> TRUE, bytes |-> code],
                       !.cacheBuf[codeHash] = storedBacking("input"),
                       !.read = NoRead]

\* get_code: out_ptr and out_len as the call leaves them
codeRead(h, codeHash) ==
  /\ lookupOk(h)
  /\ get_code(h, codeHash)
  /\ LET code == CodeByHash(handleMap[h], codeHash)
     IN mem' = [mem EXCEPT
                  !.output = code,
                  !.cacheBuf[codeHash] = returnedBacking(mem.cacheBuf[codeHash]),
                  !.read = [ok |-> TRUE, hash |-> codeHash,
                            null |-> Len(code) = 0, bytes |-> code]]

\* the caller writes `bytes` into the copy get_code handed out
mutateOutput(bytes) ==
  /\ mem.output # NoBytes
  /\ bytes # mem.output
  /\ handleMap' = [h \in DOMAIN handleMap |->
                     writeThrough(handleMap[h], "output", bytes)]
  /\ mem' = [mem EXCEPT !.output = bytes, !.read = NoRead]
  /\ UNCHANGED <<handleSeq, ledger, hist, fl, nWrites, snap, reg, ret, thr>>

\* a callback that is not get_code ends the life of the last out parameters
otherCall == mem' = [mem EXCEPT !.read = NoRead]

CodeInfos == {AccountInfo(uint256ToFFIU256(1), 1, RuntimeHash)}

CodeNext ==
  \/ \E b \in CodeInputs : fillInput(b)
  \/ \E c \in CodeKeys, u \in BOOLEAN : codeStore(TheHandle, c, u)
  \/ \E c \in CodeKeys : codeRead(TheHandle, c)
  \/ \E b \in CodeInputs : mutateOutput(b)
  \/ \E a \in Addrs : get_account(TheHandle, a) /\ otherCall
  \/ \E a \in Addrs, i \in CodeInfos : set_account(TheHandle, a, i) /\ otherCall

CodeSpec == Init /\ [][CodeNext]_vars

\* C19: code round trip with copy semantics. After set_code(h, b) with a
\* non-empty b has returned 0, get_code(h) on the same journal returns bytes
\* equal to b, whatever the caller has since written into its input buffer
\* or into a copy an earlier get_code handed out.
CodeRoundTrip ==
  \A c \in Hashes :
    mem.stored[c].ok =>
      /\ CodeByHash(Journal(TheHandle), c) = mem.stored[c].bytes
      /\ (mem.read.ok /\ mem.read.hash = c) =>
           (ret.status = 0 /\ ~mem.read.null /\ mem.read.bytes = mem.stored[c].bytes)

\* a stored code was read back although the caller has overwritten both the
\* buffer it stored from and a copy it was handed
CodeRoundTripWitness ==
  \E c \in CodeKeys :
    /\ mem.stored[c].ok
    /\ mem.input # mem.stored[c].bytes
    /\ mem.output # NoBytes
    /\ mem.read.ok /\ mem.read.hash = c
    /\ mem.read.bytes = mem.stored[c].bytes
    /\ mem.output = mem.read.bytes

\* C20: get_code is answered from the code cache alone. A get_code for a
\* hash nothing has put into the cache returns 1 with a null pointer and
\* length 0, even if an account of the ledger holds code with that hash, and
\* the call leaves both the cache and the ledger as they were.
CodeCacheOnly ==
  [][(mem'.read.ok /\ ~Journal(TheHandle).codeCache[mem'.read.hash].ok) =>
       /\ ret'.op = "get_code" /\ ret'.status = NotFound
       /\ mem'.read.null /\ mem'.read.bytes = NoBytes
       /\ ledger' = ledger
       /\ handleMap' = handleMap]_vars

\* not-found was returned for the hash of a code an account of the ledger holds
CodeCacheOnlyWitness ==
  /\ mem.read.ok
  /\ mem.read.null
  /\ ret.op = "get_code" /\ ret.status = NotFound
  /\ ~Journal(TheHandle).codeCache[mem.read.hash].ok
  /\ \E a \in Addrs :
       /\ GetCodeHash(ledger[TheDB], a) = mem.read.hash
       /\ GetCodeSize(ledger[TheDB], a) > 0

\* C21: set_account does not transfer bytecode. A set_account call leaves
\* the code cache as it was, so get_code for a hash that was never stored
\* and never warmed still returns not-found after set_account has written
\* an info with that code hash.
SetAccountKeepsCodeCache ==
  [][(ret'.op = "set_account" /\ ret'.valid) =>
       \A h \in DOMAIN handleMap :
         handleMap'[h].codeCache = handleMap[h].codeCache]_vars

\* ------------------------------------------------------------------------
\* Specification: several journals registered for the same ledger
\* ------------------------------------------------------------------------
\* flush, but dropping the journal from the registry once it is flushed
flushReleases(h) ==
  IF lookupOk(h)
  THEN /\ ledger' = [ledger EXCEPT ![handleMap[h].db] =
                       flushPending(handleMap[h], ledger[handleMap[h].db]).db]
       /\ handleMap' = [g \in DOMAIN handleMap \ {h} |-> handleMap[g]]
       /\ fl' = [NoFlush EXCEPT !.valid = TRUE, !.h = h]
       /\ hist' = [hist EXCEPT ![h] = [NoHist EXCEPT !.flushed = TRUE]]
       /\ ret' = [op |-> "flush", h |-> h, valid |-> TRUE, status |-> 0]
       /\ UNCHANGED <<handleSeq, nWrites, snap, reg, thr>>
  ELSE /\ ret' = [op |-> "flush", h |-> h, valid |-> FALSE, status |-> 0]
       /\ UNCHANGED <<handleMap, handleSeq, hist, reg>>
       /\ UNCHANGED callVars

\* FlushPending(handle) as its caller sees it: nothing happens for a handle
\* lookup does not find
flush(h) ==
  IF lookupOk(h)
  THEN /\ FlushPending(h)
       /\ ret' = [op |-> "flush", h |-> h, valid |-> TRUE, status |-> 0]
       /\ UNCHANGED <<snap, reg, thr>>
  ELSE /\ ret' = [op |-> "flush", h |-> h, valid |-> FALSE, status |-> 0]
       /\ UNCHANGED <<handleMap, handleSeq, hist, reg>>
       /\ UNCHANGED callVars

OwnInfos == {AccountInfo(uint256ToFFIU256(1), 1, EmptyCodeHash)}
OwnWords == {2}

\* the host registers one more journal for the ledger of TheHandle
secondJournal(c) ==
  /\ reg.issued = <<TheHandle>>
  /\ NewStateDBAdd(c, TheDB)

OwnNext ==
  \/ secondJournal("r1") /\ UNCHANGED mem
  \/ NewStateDBStore("r1") /\ UNCHANGED mem
  \/ \E h \in reg.returned \ reg.released : ReleaseStateDB(h) /\ UNCHANGED mem
  \/ \E h \in reg.returned, v \in OwnWords : set_storage(h, "a2", "s1", v) /\ UNCHANGED mem
  \/ \E h \in reg.returned, i \in OwnInfos : set_account(h, "a1", i) /\ UNCHANGED mem
  \/ \E h \in reg.returned : flush(h) /\ UNCHANGED mem

OwnSpec == Init /\ [][OwnNext]_vars

\* code stored and read through several journals
ShareNext ==
  \/ secondJournal("r1") /\ UNCHANGED mem
  \/ NewStateDBStore("r1") /\ UNCHANGED mem
  \/ \E h \in reg.returned \ reg.released : ReleaseStateDB(h) /\ UNCHANGED mem
  \/ \E b \in CodeInputs : fillInput(b)
  \/ \E h \in reg.returned, c \in CodeKeys : codeStore(h, c, TRUE)
  \/ \E h \in reg.returned, c \in CodeKeys : codeRead(h, c)

ShareSpec == Init /\ [][ShareNext]_vars

\* C22: the code cache is shared by all journals. Code that set_code stored
\* through one registered handle is returned by get_code through every other
\* registered handle, also after the handle that stored it was released.
CodeCacheShared ==
  \A c \in Hashes :
    mem.stored[c].ok =>
      /\ \A h \in DOMAIN handleMap :
           CodeByHash(Journal(h), c) = mem.stored[c].bytes
      /\ (mem.read.ok /\ mem.read.hash = c) => mem.read.bytes = mem.stored[c].bytes

\* what a reader of the journal `st` over the ledger `db` is told
ReadsOf(st, db) ==
  [basic |-> [a \in Addrs |-> Basic(st, db, a)],
   storage |-> [a \in Addrs |-> [sl \in Slots |-> Storage(st, db, a, sl)]]]

\* C23: journal ownership. A write through one handle never adds, changes or
\* removes an entry of another journal's pending overlays, and until a flush
\* changes the ledger it is not visible to a read through another handle,
\* even when both journals wrap the same ledger.
JournalOwnership ==
  [][\A h2 \in DOMAIN handleMap \cap DOMAIN handleMap' :
       hist'[h2] = hist[h2] =>
         /\ Overlays(handleMap'[h2]) = Overlays(handleMap[h2])
         /\ ledger' = ledger =>
              ReadsOf(handleMap'[h2], ledger'[handleMap'[h2].db])
                = ReadsOf(handleMap[h2], ledger[handleMap[h2].db])]_vars

\* two journals of one ledger, one with an unflushed write the other does not see
JournalOwnershipWitness ==
  \E h1, h2 \in DOMAIN handleMap :
    /\ h1 # h2
    /\ Journal(h1).db = Journal(h2).db
    /\ hist[h1].storage["a2"]["s1"].ok
    /\ ~hist[h2].storage["a2"]["s1"].ok
    /\ ret.op = "set_storage" /\ ret.h = h1 /\ ret.valid
    /\ Storage(Journal(h1), LedgerOf(h1), "a2", "s1") = hist[h1].storage["a2"]["s1"].val
    /\ Storage(Journal(h2), LedgerOf(h2), "a2", "s1")
         # Storage(Journal(h1), LedgerOf(h1), "a2", "s1")

\* C24: release does not flush. ReleaseStateDB leaves the ledger unchanged
\* even when the journal holds pending writes, and a later FlushPending on
\* the released handle does nothing and applies none of those writes.
ReleaseDoesNotFlush ==
  [][/\ (DOMAIN handleMap' # DOMAIN handleMap
           /\ DOMAIN handleMap' \subseteq DOMAIN handleMap) => ledger' = ledger
     /\ (ret'.op = "flush" /\ ~ret'.valid) =>
          (ledger' = ledger /\ handleMap' = handleMap)]_vars

\* a journal was released with an unflushed slot and then flushed in vain
ReleaseDoesNotFlushWitness ==
  \E h \in reg.released :
    /\ hist[h].storage["a2"]["s1"].ok
    /\ ~hist[h].flushed
    /\ ret.op = "flush" /\ ret.h = h /\ ~ret.valid
    /\ GetState(ledger[TheDB], "a2", "s1") # hist[h].storage["a2"]["s1"].val

\* C25: handle 0 is never live. The registry never has an entry for handle
\* 0, NewStateDB never returns 0 for a ledger that is not nil, and NewStateDB
\* of a nil ledger returns 0 without adding a registry entry and without
\* taking a handle number.
HandleZeroReserved ==
  /\ [](/\ 0 \notin DOMAIN handleMap
        /\ (ret.op = "NewStateDB" /\ ret.valid) => ret.h # 0)
  /\ [][(ret'.op = "NewStateDB" /\ ~ret'.valid) =>
          (ret'.h = 0 /\ handleMap' = handleMap /\ handleSeq' = handleSeq)]_vars

\* a nil ledger was turned away after handles had been handed out and released
HandleZeroReservedWitness ==
  /\ ret.op = "NewStateDB" /\ ~ret.valid /\ ret.h = 0
  /\ handleSeq > TheHandle
  /\ reg.released # {}
  /\ ~lookupOk(0)

\* ------------------------------------------------------------------------
\* Specification: prefetch batches between the writes of a block
\* ------------------------------------------------------------------------
\* Prefetch of the executor of handle h, as its caller sees it
prefetch(h, keys) ==
  /\ Prefetch(h, keys)
  /\ ret' = [op |-> "Prefetch", h |-> h, valid |-> TRUE, status |-> 0]
  /\ UNCHANGED <<snap, reg, thr>>

PrefNext ==
  \/ \E a \in Addrs, i \in OwnInfos : set_account(TheHandle, a, i) /\ UNCHANGED mem
  \/ \E sl \in Slots, v \in OwnWords : set_storage(TheHandle, "a2", sl, v) /\ UNCHANGED mem
  \/ \E keys \in SeqsUpTo(BatchKeys, MaxKeys) : prefetch(TheHandle, keys) /\ UNCHANGED mem
  \/ \E c \in CodeKeys : get_code(TheHandle, c) /\ UNCHANGED mem
  \/ \E sl \in Slots : get_storage(TheHandle, "a2", sl) /\ UNCHANGED mem
  \/ flush(TheHandle) /\ UNCHANGED mem

PrefSpec == Init /\ [][PrefNext]_vars

\* what Prefetch leaves alone: the ledger, both pending overlays and what
\* get_account and get_storage return; an empty batch changes nothing
prefetchFrame(h, keys) ==
  /\ ledger' = ledger
  /\ Overlays(handleMap'[h]) = Overlays(handleMap[h])
  /\ ReadsOf(handleMap'[h], ledger'[handleMap'[h].db])
       = ReadsOf(handleMap[h], ledger[handleMap[h].db])
  /\ Len(keys) = 0 => handleMap' = handleMap

\* C26 as stated: Prefetch is read-only. An empty batch changes nothing, any
\* batch leaves both pending overlays and the ledger unchanged, and every
\* later read, get_code included, returns what it would have returned
\* without the prefetch.
PrefetchReadOnlyAsStated ==
  [][\A h \in DOMAIN handleMap, keys \in SeqsUpTo(BatchKeys, MaxKeys) :
       Prefetch(h, keys) =>
         /\ prefetchFrame(h, keys)
         /\ \A c \in Hashes :
              CodeByHash(handleMap'[h], c) = CodeByHash(handleMap[h], c)]_vars

\* C26: Prefetch is read-only. An empty batch changes nothing, and any batch
\* leaves both pending overlays and the ledger unchanged, so get_account and
\* get_storage return the same with or without it; get_code may turn from
\* not-found to found, because the batch may warm the code cache.
PrefetchReadOnly ==
  [][\A h \in DOMAIN handleMap, keys \in SeqsUpTo(BatchKeys, MaxKeys) :
       Prefetch(h, keys) => prefetchFrame(h, keys)]_vars

\* a prefetch has warmed the code cache of a journal that holds pending writes
PrefetchReadOnlyWitness ==
  /\ ret.op = "Prefetch"
  /\ LenBasic(Journal(TheHandle)) > 0
  /\ LenStorage(Journal(TheHandle)) > 0
  /\ Journal(TheHandle).codeCache[RuntimeHash].ok
  /\ Journal(TheHandle).codeCache[RuntimeHash].bytes = GetCode(ledger[TheDB], "a2")

\* ------------------------------------------------------------------------
\* Specification: one executor on the journal, from its creation to Close
\* ------------------------------------------------------------------------
\* NewRevmExecutorStateDB(handle): the executor keeps the handle for Close
NewRevmExecutorStateDB(h) ==
  /\ lookupOk(h)
  /\ snap.status = "none"
  /\ snap' = [NoSnap EXCEPT !.status = "open", !.inst = TRUE, !.handle = h,
                            !.pre = [st |-> handleMap[h], db |-> ledger[handleMap[h].db]]]
  /\ UNCHANGED journalVars

ExecNext ==
  \/ NewRevmExecutorStateDB(TheHandle)
  \/ \E a \in Addrs, sl \in Slots, amt \in Amounts :
       snap.status = "open" /\ CallContractCommit(snap.handle, a, sl, amt)
         /\ UNCHANGED extra
  \/ \E a \in Addrs, sl \in Slots, v \in Words :
       snap.status = "open" /\ re_state_set_storage(snap.handle, a, sl, v)
         /\ UNCHANGED extra
  \/ \E a \in Addrs, sl \in Slots : re_state_storage(TheHandle, a, sl) /\ UNCHANGED extra
  \/ Close

ExecSpec == Init /\ [][ExecNext]_vars

BlockHashes == {ZeroHash, "blockhash(a)", "blockhash(b)"}

\* every call that is not get_block_hash ends the life of the last out_hash
hashOther == mem' = [mem EXCEPT !.hashOut = NoHashOut]

\* the host configures the resolver of the journal
setResolver(h) ==
  /\ lookupOk(h)
  /\ handleMap[h].blockHashResolverNil
  /\ handleMap' = [handleMap EXCEPT ![h].blockHashResolverNil = FALSE]
  /\ hashOther
  /\ UNCHANGED <<handleSeq, ledger, hist, fl, nWrites, snap, reg, ret, thr>>

\* the host's chain changes: the resolver has a new answer for number n
chainMoves(n, b) ==
  /\ mem.resolver[n] # b
  /\ mem' = [mem EXCEPT !.resolver[n] = b, !.hashOut = NoHashOut]
  /\ UNCHANGED <<handleMap, handleSeq, ledger, hist, fl, nWrites, snap, reg, ret, thr>>

\* get_block_hash with out_hash as the call leaves it
blockHashCall(h, n) ==
  /\ lookupOk(h)
  /\ get_block_hash(h, n)
  /\ LET out == BlockHash(handleMap[h], n)
     IN mem' = [mem EXCEPT
                  !.hashOut = [ok |-> TRUE, number |-> n, hash |-> out,
                               prev |-> mem.hashSeen[n]],
                  !.hashSeen[n] = [ok |-> TRUE, hash |-> out]]

HashNext ==
  \/ setResolver(TheHandle)
  \/ \E n \in BlockNumbers, b \in BlockHashes : chainMoves(n, b)
  \/ \E n \in BlockNumbers : blockHashCall(TheHandle, n)
  \/ \E v \in OwnWords : set_storage(TheHandle, "a2", "s1", v) /\ hashOther
  \/ flush(TheHandle) /\ hashOther

HashSpec == Init /\ [][HashNext]_vars

\* C28: get_block_hash returns the all-zero hash for every number while the
\* journal has no resolver, and otherwise exactly what the resolver returns
\* for the number at the time of the call; nothing is cached between calls
\* and neither the overlays nor the ledger change.
BlockHashPassThrough ==
  [][mem'.hashOut.ok =>
       /\ ret'.op = "get_block_hash" /\ ret'.status = 0
       /\ mem'.hashOut.hash =
            IF Journal(TheHandle).blockHashResolverNil THEN ZeroHash
            ELSE mem.resolver[mem'.hashOut.number]
       /\ handleMap' = handleMap
       /\ ledger' = ledger]_vars

\* the resolver's answer for a number changed between two calls and the
\* second call returned the new one, with a write pending in the journal
BlockHashPassThroughWitness ==
  /\ mem.hashOut.ok
  /\ ~Journal(TheHandle).blockHashResolverNil
  /\ mem.hashOut.prev.ok
  /\ mem.hashOut.prev.hash # ZeroHash
  /\ mem.hashOut.hash # ZeroHash
  /\ mem.hashOut.hash # mem.hashOut.prev.hash
  /\ LenStorage(Journal(TheHandle)) > 0

\* ------------------------------------------------------------------------
\* Specification: account reads after account writes on one journal
\* ------------------------------------------------------------------------
AcctInfos == {ZeroInfo} \cup OwnInfos

AcctNext ==
  \/ \E a \in Addrs, i \in AcctInfos : set_account(TheHandle, a, i) /\ UNCHANGED mem
  \/ \E a \in Addrs : get_account(TheHandle, a) /\ UNCHANGED mem
  \/ flush(TheHandle) /\ UNCHANGED mem

AcctSpec == Init /\ [][AcctNext]_vars

\* C29: get_account returns the not-found status 1 only when the account is
\* empty in the ledger (zero balance, zero nonce, zero code hash) and the
\* journal holds no pending entry for the address; whenever a pending entry
\* exists it returns 0 with the pending info.
NotFoundOnlyWithoutPending ==
  [][\A a \in Addrs :
       get_account(TheHandle, a) =>
         /\ ret'.status = NotFound =>
              /\ ~BasicPending(Journal(TheHandle), a)
              /\ isEmptyAccount(LedgerInfo(LedgerOf(TheHandle), a))
         /\ BasicPending(Journal(TheHandle), a) => ret'.status = 0]_vars

\* ------------------------------------------------------------------------
\* Specification: a contract is created in the block and the block is flushed
\* ------------------------------------------------------------------------
DeployNext ==
  \/ \E a \in Addrs, i \in CodeInfos : set_account(TheHandle, a, i) /\ otherCall
  \/ fillInput(Runtime)
  \/ codeStore(TheHandle, RuntimeHash, TRUE)
  \/ \E a \in Addrs : get_account(TheHandle, a) /\ otherCall
  \/ flush(TheHandle) /\ otherCall

DeploySpec == Init /\ [][DeployNext]_vars

\* C30: the real runtime code reaches the ledger, never the placeholder.
\* Whatever flush writes as the code of an account are bytes set_code
\* supplied for the account's pending code hash, or bytes an account of the
\* ledger already had under that hash; the two-byte placeholder set_account
\* puts into the code cache is never written as an account's code.
PlaceholderNeverFlushed ==
  fl.valid =>
    \A a \in Addrs :
      GetCode(LedgerOf(fl.h), a) # GetCode(fl.db, a) =>
        LET c == fl.st.pendingBasic[a].info.CodeHash
            code == GetCode(LedgerOf(fl.h), a)
        IN /\ code # Placeholder
           /\ \/ mem.stored[c].ok /\ mem.stored[c].bytes = code
              \/ \E b \in Addrs : GetCodeHash(fl.db, b) = c /\ GetCode(fl.db, b) = code

\* ------------------------------------------------------------------------
\* The journal's mutex: callbacks and flush calls of several goroutines on
\* one journal, each taken step by step (the call, s.mu.Lock(), the body,
\* the return with s.mu.Unlock())
\* ------------------------------------------------------------------------
\* the goroutine is not inside a call
Idle == [pc |-> "idle", h |-> 0]

\* where a goroutine is between s.mu.Lock() and s.mu.Unlock()
InLock == {"first", "rest", "read", "write", "apply", "reset"}

\* sync.Mutex: s.mu is held by the goroutine between Lock and Unlock, and
\* for good once re_state_set_storage has panicked in its locked write
\* (its Unlock is not deferred)
muHeld ==
  \/ \E c \in Callers : reg.callers[c].pc \in InLock
  \/ thr.status = "panic"

\* the frame of a step that only moves a goroutine
goVars == <<handleMap, handleSeq, ledger, hist, fl, nWrites, snap, ret, thr, mem>>

\* writes goroutines have been called with and not yet made
reserved ==
  Cardinality({c \in Callers : reg.callers[c].pc \in {"lock", "write"}
                                 /\ reg.callers[c].op = "set_account"})

\* a callback or flush call arrives on goroutine c: lookup finds the journal
goCall(c, op, h, addr, slot, info) ==
  /\ reg.callers[c].pc = "idle"
  /\ lookupOk(h)
  /\ thr.status # "panic"
  /\ reg' = [reg EXCEPT !.callers[c] =
               [pc |-> "lock", h |-> h, op |-> op, addr |-> addr, slot |-> slot,
                info |-> info, bal |-> 0, writes |-> {},
                peer |-> \E d \in Callers \ {c} :
                            /\ reg.callers[d].pc # "idle"
                            /\ reg.callers[d].op = "flush"]]
  /\ UNCHANGED goVars

\* the goroutine returns from its call
goReturn(c, out) ==
  /\ reg' = [reg EXCEPT !.callers[c] = Idle]
  /\ ret' = [op |-> reg.callers[c].op, h |-> reg.callers[c].h, valid |-> TRUE,
             status |-> 0, c |-> c, peer |-> reg.callers[c].peer, out |-> out]

\* ---- stateDBImpl.Basic under s.mu ----------------------------------------
\* basicLock, but entering without waiting for the mutex
basicLockNoWait(c) ==
  /\ reg.callers[c].pc = "lock"
  /\ reg.callers[c].op = "get_account"
  /\ reg' = [reg EXCEPT !.callers[c].pc = "first"]
  /\ UNCHANGED goVars

\* s.mu.Lock() of Basic
basicLock(c) ==
  /\ reg.callers[c].pc = "lock"
  /\ reg.callers[c].op = "get_account"
  /\ ~muHeld
  /\ reg' = [reg EXCEPT !.callers[c].pc = "first"]
  /\ UNCHANGED goVars

\* the pending override is returned directly; else s.db.GetBalance(addr)
basicFirst(c) ==
  /\ reg.callers[c].pc = "first"
  /\ LET g == reg.callers[c]
         st == handleMap[g.h]
     IN IF BasicPending(st, g.addr)
        THEN goReturn(c, st.pendingBasic[g.addr].info)
        ELSE /\ reg' = [reg EXCEPT !.callers[c].pc = "rest",
                                   !.callers[c].bal = GetBalance(ledger[st.db], g.addr)]
             /\ UNCHANGED ret
  /\ UNCHANGED <<handleMap, handleSeq, ledger, hist, fl, nWrites, snap, thr, mem>>

\* s.db.GetNonce, s.db.GetCodeHash, the warming of the code cache and the
\* return of the FFIAccountInfo
basicRest(c) ==
  /\ reg.callers[c].pc = "rest"
  /\ LET g == reg.callers[c]
         st == handleMap[g.h]
         db == ledger[st.db]
     IN /\ handleMap' = [handleMap EXCEPT ![g.h].codeCache = BasicWarm(st, db, g.addr)]
        /\ goReturn(c, AccountInfo(uint256ToFFIU256(g.bal), GetNonce(db, g.addr),
                                   GetCodeHash(db, g.addr)))
  /\ UNCHANGED <<handleSeq, ledger, hist, fl, nWrites, snap, thr, mem>>

\* ---- stateDBImpl.Storage under s.mu --------------------------------------
\* s.mu.Lock() of Storage
storageLock(c) ==
  /\ reg.callers[c].pc = "lock"
  /\ reg.callers[c].op = "get_storage"
  /\ ~muHeld
  /\ reg' = [reg EXCEPT !.callers[c].pc = "read"]
  /\ UNCHANGED goVars

\* the pending word, else s.db.GetState(addr, slot)
storageRead(c) ==
  /\ reg.callers[c].pc = "read"
  /\ LET g == reg.callers[c]
         st == handleMap[g.h]
     IN goReturn(c, Storage(st, ledger[st.db], g.addr, g.slot))
  /\ UNCHANGED <<handleMap, handleSeq, ledger, hist, fl, nWrites, snap, thr, mem>>

\* ---- re_state_set_basic under st.mu --------------------------------------
\* st.mu.Lock() of re_state_set_basic
setBasicLock(c) ==
  /\ reg.callers[c].pc = "lock"
  /\ reg.callers[c].op = "set_account"
  /\ ~muHeld
  /\ reg' = [reg EXCEPT !.callers[c].pc = "write"]
  /\ UNCHANGED goVars

\* ensureJournal, the pending entry, the placeholder, st.mu.Unlock()
setBasicWrite(c) ==
  /\ reg.callers[c].pc = "write"
  /\ re_state_set_basic(reg.callers[c].h, reg.callers[c].addr, reg.callers[c].info)
  /\ goReturn(c, 0)
  /\ UNCHANGED <<snap, thr, mem>>

\* ---- stateDBImpl.flushPending under s.mu ---------------------------------
\* flushLock, but entering without waiting for the mutex
flushLockNoWait(c) ==
  /\ reg.callers[c].pc = "lock"
  /\ reg.callers[c].op = "flush"
  /\ reg' = [reg EXCEPT !.callers[c].pc = "apply"]
  /\ UNCHANGED goVars

\* s.mu.Lock() of flushPending
flushLock(c) ==
  /\ reg.callers[c].pc = "lock"
  /\ reg.callers[c].op = "flush"
  /\ ~muHeld
  /\ reg' = [reg EXCEPT !.callers[c].pc = "apply"]
  /\ UNCHANGED goVars

\* the test of the two lengths and the loops over pendingBasic and
\* pendingStorage: the entries reach the ledger
flushApply(c) ==
  /\ reg.callers[c].pc = "apply"
  /\ LET g == reg.callers[c]
         st == handleMap[g.h]
         r == flushPending(st, ledger[st.db])
     IN /\ ledger' = [ledger EXCEPT ![st.db] = r.db]
        /\ fl' = [valid |-> TRUE, h |-> g.h, st |-> st, db |-> ledger[st.db],
                  writes |-> r.writes, hist |-> hist[g.h],
                  again |-> fl.valid /\ fl.h = g.h,
                  prevWrites |-> IF fl.valid /\ fl.h = g.h THEN fl.writes ELSE {}]
        /\ hist' = [hist EXCEPT ![g.h] = [NoHist EXCEPT !.flushed = TRUE]]
        /\ IF LenBasic(st) = 0 /\ LenStorage(st) = 0
           THEN goReturn(c, {})
           ELSE /\ reg' = [reg EXCEPT !.callers[c].pc = "reset",
                                      !.callers[c].writes = r.writes]
                /\ UNCHANGED ret
  /\ UNCHANGED <<handleMap, handleSeq, nWrites, snap, thr, mem>>

\* "reset": both maps become nil, and the deferred s.mu.Unlock()
flushReturn(c) ==
  /\ reg.callers[c].pc = "reset"
  /\ handleMap' = [handleMap EXCEPT ![reg.callers[c].h] = flushReset(@)]
  /\ goReturn(c, reg.callers[c].writes)
  /\ UNCHANGED <<handleSeq, ledger, hist, fl, nWrites, snap, thr, mem>>

\* what the goroutines of this specification pass
MuInfos == {AccountInfo(uint256ToFFIU256(1), 1, EmptyCodeHash)}

\* Specification: two goroutines call set_account and flush on the block's
\* journal while a third runs set_storage calls
MuNext ==
  \/ \E c \in Callers, i \in MuInfos :
       /\ nWrites + reserved < MaxWrites
       /\ goCall(c, "set_account", TheHandle, "a1", NoSlot, i)
  \/ \E c \in Callers : goCall(c, "flush", TheHandle, "a1", NoSlot, ZeroInfo)
  \/ \E c \in Callers : setBasicLock(c)
  \/ \E c \in Callers : setBasicWrite(c)
  \/ \E c \in Callers : flushLock(c)
  \/ \E c \in Callers : flushApply(c)
  \/ \E c \in Callers : flushReturn(c)
  \/ \E v \in OwnWords :
       /\ nWrites + reserved < MaxWrites
       /\ setStorageBegin(TheHandle, "a2", "s1", v)
  \/ ensureBasicTest
  \/ ensureBasicAlloc
  \/ ensureStorageTest
  \/ ensureStorageAlloc
  \/ ~muHeld /\ setStorageLocked

MuSpec == Init /\ [][MuNext]_vars

\* Specification: one goroutine reads through the block's journal while a
\* second calls set_account and flush and a third runs set_storage calls
ReadNext ==
  \/ goCall("r1", "get_account", TheHandle, "a1", NoSlot, ZeroInfo)
  \/ goCall("r1", "get_storage", TheHandle, "a2", "s1", ZeroInfo)
  \/ \E i \in MuInfos :
       /\ nWrites + reserved < MaxWrites
       /\ goCall("r2", "set_account", TheHandle, "a1", NoSlot, i)
  \/ goCall("r2", "flush", TheHandle, "a1", NoSlot, ZeroInfo)
  \/ basicLock("r1")
  \/ basicFirst("r1")
  \/ basicRest("r1")
  \/ storageLock("r1")
  \/ storageRead("r1")
  \/ setBasicLock("r2")
  \/ setBasicWrite("r2")
  \/ flushLock("r2")
  \/ flushApply("r2")
  \/ flushReturn("r2")
  \/ \E v \in OwnWords :
       /\ nWrites + reserved < MaxWrites
       /\ setStorageBegin(TheHandle, "a2", "s1", v)
  \/ ensureBasicTest
  \/ ensureBasicAlloc
  \/ ensureStorageTest
  \/ ensureStorageAlloc
  \/ ~muHeld /\ setStorageLocked

ReadSpec == Init /\ [][ReadNext]_vars

\* ledger writes a flush may issue for the entries callers have written
\* since the last flush
WritesOf(hs) ==
  {LedgerWrite(op, a, NoSlot) :
     op \in {"SetBalance", "SetNonce", "SetCode"}, a \in {x \in Addrs : hs.basic[x].ok}}
  \cup {LedgerWrite("SetState", k[1], k[2]) :
          k \in {x \in Addrs \X Slots : hs.storage[x[1]][x[2]].ok}}

ReadsAtomic ==
  [][\A c \in Callers :
       LET g == reg.callers[c]
       IN /\ ((basicFirst(c) \/ basicRest(c)) /\ reg'.callers[c].pc = "idle") =>
               ret'.out = Basic(Journal(g.h), LedgerOf(g.h), g.addr)
          /\ storageRead(c) =>
               ret'.out = Storage(Journal(g.h), LedgerOf(g.h), g.addr, g.slot)]_vars

\* a get_account called while a flush was running has returned the info
\* that flush wrote to the ledger
ReadsAtomicWitness ==
  /\ ret.op = "get_account" /\ ret.peer
  /\ fl.valid /\ LedgerWrite("SetNonce", "a1", NoSlot) \in fl.writes
  /\ ~BasicPending(Journal(TheHandle), "a1")
  /\ ret.out = LedgerInfo(LedgerOf(TheHandle), "a1")

\* fair scheduling: a goroutine that can take a step eventually takes it,
\* and a goroutine waiting in Lock gets the mutex if it is free again and
\* again (sync.Mutex hands the lock to a starving waiter)
ReadFair ==
  /\ SF_vars(basicLock("r1")) /\ SF_vars(storageLock("r1"))
  /\ SF_vars(setBasicLock("r2")) /\ SF_vars(flushLock("r2"))
  /\ SF_vars(~muHeld /\ setStorageLocked)
  /\ WF_vars(basicFirst("r1")) /\ WF_vars(basicRest("r1"))
  /\ WF_vars(storageRead("r1"))
  /\ WF_vars(setBasicWrite("r2"))
  /\ WF_vars(flushApply("r2")) /\ WF_vars(flushReturn("r2"))
  /\ WF_vars(ensureBasicTest) /\ WF_vars(ensureBasicAlloc)
  /\ WF_vars(ensureStorageTest) /\ WF_vars(ensureStorageAlloc)

LiveSpec == ReadSpec /\ ReadFair

\* C33: deadlock freedom. No operation takes the journal's lock while it
\* holds it, so under fair scheduling every get_account, get_storage,
\* set_account, set_storage and flush that has been called on the journal
\* eventually returns, whatever the interleaving.
EveryCallReturns ==
  /\ \A c \in Callers : (reg.callers[c].pc # "idle") ~> (reg.callers[c].pc = "idle")
  /\ (thr.pc \notin {"idle", "done"}) ~> (thr.pc = "done" /\ thr.status = "0")

\* ------------------------------------------------------------------------
\* Specification: the host asks about, and flushes, the overlay of a ledger
\* for which NewExecutor has registered one or two journals
\* ------------------------------------------------------------------------
\* the ledgers the host passes: the block's StateDB and a nil pointer
HostDBs == DBs \cup {NilDB}

\* the registered journals whose db field is db
Wrapping(db) == {h \in DOMAIN handleMap : handleMap[h].db = db}

\* HasPendingOverlay(db) as the host calls it: false for nil, else what the
\* journal Range visits first for db holds
hasPendingOverlay(db) ==
  /\ \E b \in (IF db = NilDB THEN {FALSE} ELSE HasPendingOverlay(db)) :
       ret' = [op |-> "HasPendingOverlay", h |-> 0, valid |-> db # NilDB,
               status |-> 0, db |-> db, out |-> b]
  /\ UNCHANGED <<handleMap, handleSeq, hist, reg, mem>>
  /\ UNCHANGED callVars

\* FlushPendingFor(db): nothing for nil; Range flushes the first journal it
\* visits whose db is db and stops
FlushPendingFor(db) ==
  IF db = NilDB \/ Wrapping(db) = {}
  THEN /\ ret' = [op |-> "FlushPendingFor", h |-> 0, valid |-> FALSE, status |-> 0]
       /\ UNCHANGED <<handleMap, handleSeq, hist, reg, mem>>
       /\ UNCHANGED callVars
  ELSE \E h \in Wrapping(db) :
         /\ FlushPending(h)
         /\ ret' = [op |-> "FlushPendingFor", h |-> h, valid |-> TRUE, status |-> 0]
         /\ UNCHANGED <<snap, reg, thr, mem>>

HostNext ==
  \/ secondJournal("r1") /\ UNCHANGED mem
  \/ NewStateDBStore("r1") /\ UNCHANGED mem
  \/ \E h \in reg.returned \ reg.released : ReleaseStateDB(h) /\ UNCHANGED mem
  \/ \E h \in reg.returned, v \in OwnWords : set_storage(h, "a2", "s1", v) /\ UNCHANGED mem
  \/ \E h \in reg.returned, i \in OwnInfos : set_account(h, "a1", i) /\ UNCHANGED mem
  \/ \E db \in HostDBs : hasPendingOverlay(db)
  \/ \E db \in HostDBs : FlushPendingFor(db)

HostSpec == Init /\ [][HostNext]_vars

\* C34: HasPendingOverlay(db) returns true exactly when some registered
\* journal that wraps db holds at least one pending account or storage
\* entry, also when several handles are registered for db; it returns false
\* for a nil db and for a db no registered journal wraps.
HasPendingOverlayExact ==
  [][\A db \in HostDBs :
       hasPendingOverlay(db) =>
         (ret'.out <=> \E h \in Wrapping(db) : HasPending(Journal(h)))]_vars

\* C35: FlushPendingFor(db) flushes the overlay that wraps db. After it
\* returns no registered journal wrapping db holds pending data and the
\* words written through those journals are in the ledger; for a nil db or
\* a db no registered journal wraps it changes nothing.
FlushPendingForFlushesAll ==
  [][\A db \in HostDBs :
       FlushPendingFor(db) =>
         IF db = NilDB \/ Wrapping(db) = {}
         THEN handleMap' = handleMap /\ ledger' = ledger
         ELSE \A h \in Wrapping(db) :
                /\ ~HasPending(handleMap'[h])
                /\ \A a \in Addrs, s \in Slots :
                     hist[h].storage[a][s].ok =>
                       GetState(ledger'[db], a, s) = hist[h].storage[a][s].val]_vars

\* ------------------------------------------------------------------------
\* Specification: set_code with every kind of pointer, length and handle,
\* before and after set_account has installed a placeholder
\* ------------------------------------------------------------------------
\* the code_len values the caller passes
CodeLens == {0, 2}

\* the bytes re_state_store_code takes from (code_ptr, code_len): none for
\* a nil pointer or a zero length, else C.GoBytes(code_ptr, code_len)
givenCode(ptrNil, buf, len) ==
  IF ptrNil \/ len = 0 THEN NoBytes ELSE SubSeq(buf, 1, len)

\* set_code as its caller issues it; the caller notes the entry the cache
\* held for the hash
storeCall(h, codeHash, ptrNil, buf, len) ==
  /\ set_code(h, codeHash, givenCode(ptrNil, buf, len))
  /\ mem' = [mem EXCEPT !.input = buf, !.read = NoRead,
                        !.prior = IF lookupOk(h)
                                  THEN handleMap[h].codeCache[codeHash] ELSE NoBuf]

StoreNext ==
  \/ \E h \in reg.returned : ReleaseStateDB(h) /\ UNCHANGED mem
  \/ \E i \in CodeInfos : set_account(TheHandle, "a1", i) /\ UNCHANGED mem
  \/ \E h \in CallHandles, ptrNil \in BOOLEAN, buf \in CodeInputs, len \in CodeLens :
       storeCall(h, RuntimeHash, ptrNil, buf, len)
  \/ \E h \in CallHandles : get_code(h, RuntimeHash) /\ UNCHANGED mem

StoreSpec == Init /\ [][StoreNext]_vars

\* C36 as stated: set_code with a null pointer or a zero length returns -2
\* and leaves the code cache unchanged, whatever the handle; with a valid
\* handle and non-empty bytes it returns 0 and the cache holds the bytes.
SetCodeChecksAsStated ==
  [][\A h \in CallHandles, ptrNil \in BOOLEAN, buf \in CodeInputs, len \in CodeLens :
       storeCall(h, RuntimeHash, ptrNil, buf, len) =>
         IF ptrNil \/ len = 0
         THEN ret'.status = NoCodeGiven /\ handleMap' = handleMap
         ELSE lookupOk(h) =>
                /\ ret'.status = 0
                /\ handleMap'[h].codeCache[RuntimeHash] =
                     [ok |-> TRUE, bytes |-> SubSeq(buf, 1, len)]]_vars

\* C36: with a registered handle, set_code with a null pointer or a zero
\* length returns -2 and leaves the code cache unchanged, and with
\* non-empty bytes it returns 0 and replaces any prior entry for the hash,
\* a placeholder of set_account included; with an unregistered handle it
\* returns -1 and changes nothing, whatever the pointer and the length.
SetCodeChecks ==
  [][\A h \in CallHandles, ptrNil \in BOOLEAN, buf \in CodeInputs, len \in CodeLens :
       storeCall(h, RuntimeHash, ptrNil, buf, len) =>
         IF ~lookupOk(h)
         THEN ret'.status = InvalidHandle /\ handleMap' = handleMap
         ELSE IF ptrNil \/ len = 0
         THEN ret'.status = NoCodeGiven /\ handleMap' = handleMap
         ELSE /\ ret'.status = 0
              /\ handleMap'[h].codeCache =
                   [handleMap[h].codeCache EXCEPT
                      ![RuntimeHash] = [ok |-> TRUE, bytes |-> SubSeq(buf, 1, len)]]]_vars

\* set_code has replaced the placeholder set_account installed
SetCodeChecksWitness ==
  /\ ret.op = "set_code" /\ ret.status = 0
  /\ mem.prior = [ok |-> TRUE, bytes |-> Placeholder]
  /\ lookupOk(TheHandle)
  /\ Journal(TheHandle).codeCache[RuntimeHash] = [ok |-> TRUE, bytes |-> Runtime]

\* C37: the no-code designation is consistent in flush. A pending account
\* with zero balance and zero nonce is the same empty account whether its
\* code hash is the all-zero hash or the hash of the empty code
\* (types.EmptyCodeHash): in both cases the flush issues no ledger write
\* for the address and discards its pending storage slots.
NoCodeConsistent ==
  fl.valid =>
    \A a \in Addrs :
      (/\ PendingAt(a)
       /\ PendingBalance(a) = 0
       /\ PendingInfo(a).Nonce = 0
       /\ PendingInfo(a).CodeHash \in {ZeroHash, EmptyCodeHash}) =>
        /\ WritesFor(a) = {}
        /\ \A s \in Slots : GetState(LedgerAfter, a, s) = GetState(LedgerBefore, a, s)

\* ------------------------------------------------------------------------
\* Specification: code is stored, then accounts are written, read cold and
\* flushed on the same journal
\* ------------------------------------------------------------------------
StableNext ==
  \/ \E a \in Addrs, i \in CodeInfos : set_account(TheHandle, a, i) /\ otherCall
  \/ \E b \in CodeInputs : fillInput(b)
  \/ codeStore(TheHandle, RuntimeHash, TRUE)
  \/ \E a \in Addrs : get_account(TheHandle, a) /\ otherCall
  \/ flush(TheHandle) /\ otherCall

StableSpec == Init /\ [][StableNext]_vars

ReuseWords == {1, 2}

ReuseNext ==
  \/ NewRevmExecutorStateDB(TheHandle)
  \/ \E sl \in Slots, v \in ReuseWords : set_storage(TheHandle, "a2", sl, v) /\ UNCHANGED mem
  \/ \E i \in OwnInfos : set_account(TheHandle, "a1", i) /\ UNCHANGED mem
  \/ \E sl \in Slots : get_storage(TheHandle, "a2", sl) /\ UNCHANGED mem
  \/ flush(TheHandle) /\ UNCHANGED mem
  \/ Close

ReuseSpec == Init /\ [][ReuseNext]_vars

\* C39: a journal is reusable after flush and after the executor's Close.
\* The handle stays registered; a write issued after a flush is buffered
\* again (the ledger is untouched) and visible to reads; a flush leaves
\* nothing pending, puts the words written since the last flush into the
\* ledger and issues ledger writes for those entries only, so nothing an
\* earlier flush applied is applied a second time.
JournalReusable ==
  /\ [](lookupOk(TheHandle))
  /\ [][/\ (flush(TheHandle) \/ Close) =>
             /\ DOMAIN handleMap' = DOMAIN handleMap
             /\ ~HasPending(handleMap'[TheHandle])
             /\ fl'.writes \subseteq WritesOf(hist[TheHandle])
             /\ \A a \in Addrs, s \in Slots :
                  hist[TheHandle].storage[a][s].ok =>
                    GetState(ledger'[TheDB], a, s) = hist[TheHandle].storage[a][s].val
        /\ \A sl \in Slots, v \in ReuseWords :
             set_storage(TheHandle, "a2", sl, v) =>
               /\ ret'.status = 0
               /\ ledger' = ledger
               /\ Storage(handleMap'[TheHandle], ledger'[TheDB], "a2", sl) = v]_vars

\* after Close has applied one slot, another slot was written and a later
\* FlushPending has applied that one only
JournalReusableWitness ==
  /\ snap.status = "closed"
  /\ ret.op = "flush" /\ ret.valid
  /\ fl.valid /\ fl.writes # {}
  /\ \E s \in Slots :
       /\ GetState(ledger[TheDB], "a2", s) # GetState(snap.pre.db, "a2", s)
       /\ LedgerWrite("SetState", "a2", s) \notin fl.writes

\* ------------------------------------------------------------------------
\* StateProcessor.Process: the loop over the transactions of a block
\* ------------------------------------------------------------------------
\* most transactions in a block of this specification
MaxTxs == 2

\* a transaction is what the calls made for it return: IsSystemTransaction
\* answers false ("normal", "failing"), true ("system") or with an error
\* ("unsigned"); ApplyTransactionWithRevm fails for "failing"
TxKinds == {"normal", "system", "failing", "unsigned"}
Blocks == SeqsUpTo(TxKinds, MaxTxs)

\* the errors Process returns from the loop
ErrIsSystemTx == "IsSystemTransaction"
ErrNormalAfterSystem == "normal tx after systemTx"
ErrCouldNotApply == "could not apply tx"
NoErr == "nil"

\* everything but the host's state processor
procVars == <<handleMap, handleSeq, ledger, hist, fl, nWrites, snap, reg, ret, thr>>

\* Process(block, ...) up to the loop: posa, isPoSA := engine.(consensus.PoSA),
\* systemTxs := make(...)
Process(block, isPoSA, isCancun) ==
  /\ mem.proc.pc \in {"idle", "done"}
  /\ mem' = [mem EXCEPT !.proc =
               [pc |-> "loop", block |-> block, isPoSA |-> isPoSA,
                isCancun |-> isCancun, i |-> 1, systemTxs |-> <<>>,
                commonTxs |-> <<>>, err |-> NoErr]]
  /\ UNCHANGED procVars

\* one iteration of `for i, tx := range block.Transactions()`: a system
\* transaction is appended to systemTxs and the iteration goes on to the
\* Cancun test and to ApplyTransactionWithRevm
processTx ==
  /\ mem.proc.pc = "loop"
  /\ mem.proc.i <= Len(mem.proc.block)
  /\ LET pr == mem.proc
         tx == pr.block[pr.i]
         systemTxs == IF pr.isPoSA /\ tx = "system"
                      THEN Append(pr.systemTxs, pr.i) ELSE pr.systemTxs
         fail(e) == [pr EXCEPT !.pc = "done", !.err = e, !.systemTxs = systemTxs]
     IN mem' = [mem EXCEPT !.proc =
          IF pr.isPoSA /\ tx = "unsigned"
          THEN [pr EXCEPT !.pc = "done", !.err = ErrIsSystemTx]
          ELSE IF pr.isCancun /\ Len(systemTxs) > 0 THEN fail(ErrNormalAfterSystem)
          ELSE IF tx \in {"failing", "unsigned"} THEN fail(ErrCouldNotApply)
          ELSE [pr EXCEPT !.systemTxs = systemTxs,
                          !.commonTxs = Append(pr.commonTxs, pr.i), !.i = pr.i + 1]]
  /\ UNCHANGED procVars

\* the loop is through: bloomProcessors.Close() and on to Finalize
processFinalize ==
  /\ mem.proc.pc = "loop"
  /\ mem.proc.i > Len(mem.proc.block)
  /\ mem' = [mem EXCEPT !.proc.pc = "done"]
  /\ UNCHANGED procVars

ProcNext ==
  \/ \E block \in Blocks, isPoSA \in BOOLEAN, isCancun \in BOOLEAN :
       Process(block, isPoSA, isCancun)
  \/ processTx
  \/ processFinalize

ProcSpec == Init /\ [][ProcNext]_vars

\* a transaction that is not a system transaction comes after a system one
NormalAfterSystem(block) ==
  \E i \in 1..Len(block), j \in 1..Len(block) :
    i < j /\ block[i] = "system" /\ block[j] # "system"

\* C40: system transactions must be at the end of the block. On a
\* Cancun-active chain with a PoSA engine Process returns the "normal tx
\* after systemTx" error only for a block in which a non-system transaction
\* comes after a system transaction, and returns it for every such block
\* whose transactions before that one are processed without error; a block
\* whose system transactions are all at the end is processed without it.
SystemTxsAtEnd ==
  (mem.proc.pc = "done" /\ mem.proc.isPoSA /\ mem.proc.isCancun) =>
    /\ mem.proc.err = ErrNormalAfterSystem => NormalAfterSystem(mem.proc.block)
    /\ (/\ NormalAfterSystem(mem.proc.block)
        /\ \A i \in 1..Len(mem.proc.block) : mem.proc.block[i] \in {"normal", "system"}) =>
         mem.proc.err = ErrNormalAfterSystem

====
